---- MODULE Spec2Model ----
(***************************************************************************)
(* Decisionproof runtime guardrails: the counter store with its in-process *)
(* fallback (routers/demo_runs.py), the RPM check of the enforcement       *)
(* engine (pricing/enforcement.py) and the demo-run lifecycle (Create and  *)
(* Poll of routers/demo_runs.py).                                          *)
(*                                                                         *)
(* Time is an integer number of ticks, TicksPerSec ticks to the second, so *)
(* that sub-second clock readings (time.time(), datetime.now()) and the    *)
(* roundings applied to them (math.ceil, int) are computed, not assumed.   *)
(***************************************************************************)
EXTENDS Integers, Sequences, FiniteSets, TLC

VARIABLES
  now,        \* the wall clock, in ticks
  ticks,      \* how many times the clock has advanced (bounded)
  redis,      \* the shared store: key -> [val, ex]; holds live keys only
  mem,        \* _mem, the in-process fallback map: key -> [val, ex]
  redisUp,    \* whether get_redis() and the Redis commands succeed
  ideal,      \* a single always-available store fed the same calls
  lastRes,    \* what the last _store_* call returned to its caller
  idealRes,   \* what the always-available store returned for that call
  ops,        \* how many _store_* calls were made (bounded)
  tier,       \* check_rpm_limit: the tier's [limit, window]
  calls,      \* check_rpm_limit: each in-flight call's position and locals
  allowedCnt, \* check_rpm_limit: <<workspace, window>> -> calls that returned None
  rpmStarted, \* check_rpm_limit: calls started (bounded)
  reqs,       \* demo endpoints: each in-flight request's position and locals
  started,    \* demo endpoints: requests started (bounded)
  nextRun,    \* demo endpoints: the next fresh run id (uuid4)
  jobs,       \* history: run id -> owner, plan and retention deadline at creation
  okLog,      \* history: <<actor, run>> -> the accepted polls, in order
  resp        \* the response sent last

vars == <<now, ticks, redis, mem, redisUp, ideal, lastRes, idealRes, ops,
          tier, calls, allowedCnt, rpmStarted,
          reqs, started, nextRun, jobs, okLog, resp>>

----------------------------------------------------------------------------
(* Bounds of the model *)

TicksPerSec == 2
MaxTicks == 3
MaxOps == 4
NumRpmProcs == 2
MaxRpmCalls == 3
MaxRpmLimit == 2
RpmWindowSecs == 1
NumSlots == 2
MaxRequests == 2
MaxDemoTicks == 1

----------------------------------------------------------------------------
(* Maps with a growing domain *)

NoExpiry == -1

Empty == [k \in {} |-> 0]

Put(m, k, e) == IF k \in DOMAIN m THEN [m EXCEPT ![k] = e] ELSE m @@ (k :> e)

Drop(m, k) == [x \in (DOMAIN m) \ {k} |-> m[x]]

Max(a, b) == IF a >= b THEN a ELSE b

Min(a, b) == IF a <= b THEN a ELSE b

\* Python "time.time() + ex if ex else None": ex = 0 stands for None.
ExpireAt(t, ex) == IF ex # 0 THEN t + ex * TicksPerSec ELSE NoExpiry

NotFound == [found |-> FALSE, val |-> 0]

Found(v) == [found |-> TRUE, val |-> v]

----------------------------------------------------------------------------
(* The Redis commands the code issues. A key with a TTL is gone once the   *)
(* TTL has elapsed; Purge drops such keys when the clock advances, so a    *)
(* Redis map holds live keys only.                                         *)

Live(e, t) == e.ex = NoExpiry \/ t < e.ex

Purge(r, t) ==
  IF \A x \in DOMAIN r : Live(r[x], t) THEN r
  ELSE [k \in {x \in DOMAIN r : Live(r[x], t)} |-> r[k]]

redis_get(r, k) == IF k \in DOMAIN r THEN Found(r[k].val) ELSE NotFound

\* r.setex(key, ex, value) if ex else r.set(key, value)
redis_set(r, t, k, v, ex) == Put(r, k, [val |-> v, ex |-> ExpireAt(t, ex)])

\* INCR: a missing key counts as 0; the TTL of an existing key is kept.
redis_incr_cmd(r, k) ==
  IF k \in DOMAIN r
    THEN Put(r, k, [val |-> r[k].val + 1, ex |-> r[k].ex])
    ELSE Put(r, k, [val |-> 1, ex |-> NoExpiry])

\* DECR: a missing key counts as 0 and becomes -1; the TTL is kept.
redis_decr_cmd(r, k) ==
  IF k \in DOMAIN r
    THEN Put(r, k, [val |-> r[k].val - 1, ex |-> r[k].ex])
    ELSE Put(r, k, [val |-> -1, ex |-> NoExpiry])

\* EXPIRE key seconds: no effect on a missing key.
redis_expire_cmd(r, t, k, secs) ==
  IF k \in DOMAIN r
    THEN Put(r, k, [val |-> r[k].val, ex |-> t + secs * TicksPerSec])
    ELSE r

\* TTL key: -2 for a missing key, -1 for a key without expiry, else the
\* remaining whole seconds.
redis_ttl_cmd(r, t, k) ==
  IF k \notin DOMAIN r THEN -2
  ELSE IF r[k].ex = NoExpiry THEN -1
  ELSE (r[k].ex - t) \div TicksPerSec

redis_delete(r, k) == Drop(r, k)

----------------------------------------------------------------------------
(* The in-process fallback map: expiry is checked lazily, per key, with    *)
(* "time.time() > expire_at".                                              *)

MemExpired(e, t) == e.ex # NoExpiry /\ t > e.ex

mem_set(m, t, k, v, ex) == Put(m, k, [val |-> v, ex |-> ExpireAt(t, ex)])

mem_get_res(m, t, k) ==
  IF k \notin DOMAIN m THEN NotFound
  ELSE IF MemExpired(m[k], t) THEN NotFound
  ELSE Found(m[k].val)

mem_get_map(m, t, k) ==
  IF k \in DOMAIN m /\ MemExpired(m[k], t) THEN Drop(m, k) ELSE m

mem_incr_res(m, t, k) ==
  IF k \notin DOMAIN m \/ (k \in DOMAIN m /\ MemExpired(m[k], t))
    THEN 1
    ELSE m[k].val + 1

mem_incr_map(m, t, k, ex) ==
  IF k \notin DOMAIN m \/ (k \in DOMAIN m /\ MemExpired(m[k], t))
    THEN Put(m, k, [val |-> 1, ex |-> ExpireAt(t, ex)])
    ELSE Put(m, k, [val |-> m[k].val + 1, ex |-> m[k].ex])

mem_delete(m, k) == Drop(m, k)

mem_decr_res(m, t, k) ==
  LET current == IF k \in DOMAIN m /\ ~MemExpired(m[k], t) THEN m[k].val ELSE 0
  IN  Max(0, current - 1)

mem_decr_map(m, t, k) ==
  Put(m, k, [val |-> mem_decr_res(m, t, k),
             ex  |-> IF k \in DOMAIN m THEN m[k].ex ELSE NoExpiry])

----------------------------------------------------------------------------
(* The storage abstraction: Redis, and the in-process map when Redis       *)
(* raises. S is [redis, mem]; each call gives the new S and its result.    *)

Out(r, m, res) == [redis |-> r, mem |-> m, res |-> res]

store_get(S, up, t, k) ==
  IF up
    THEN Out(S.redis, S.mem, redis_get(S.redis, k))
    ELSE Out(S.redis, mem_get_map(S.mem, t, k), mem_get_res(S.mem, t, k))

store_set(S, up, t, k, v, ex) ==
  IF up
    THEN Out(redis_set(S.redis, t, k, v, ex), S.mem, NotFound)
    ELSE Out(S.redis, mem_set(S.mem, t, k, v, ex), NotFound)

\* _store_incr's Redis path issuing EXPIRE on every increment
redis_incr_ex_refreshing(r, t, k, ex) ==
  LET r1 == redis_incr_cmd(r, k)
  IN  IF ex # 0 THEN redis_expire_cmd(r1, t, k, ex) ELSE r1

\* val = r.incr(key); if ex and int(val) == 1: r.expire(key, ex)
redis_incr_ex(r, t, k, ex) ==
  LET r1 == redis_incr_cmd(r, k)
  IN  IF ex # 0 /\ r1[k].val = 1 THEN redis_expire_cmd(r1, t, k, ex) ELSE r1

store_incr(S, up, t, k, ex) ==
  IF up
    THEN LET r1 == redis_incr_ex(S.redis, t, k, ex)
         IN  Out(r1, S.mem, Found(r1[k].val))
    ELSE Out(S.redis, mem_incr_map(S.mem, t, k, ex), Found(mem_incr_res(S.mem, t, k)))

\* val = r.decr(key); return max(0, int(val))
store_decr(S, up, t, k) ==
  IF up
    THEN LET r1 == redis_decr_cmd(S.redis, k)
         IN  Out(r1, S.mem, Found(Max(0, r1[k].val)))
    ELSE Out(S.redis, mem_decr_map(S.mem, t, k), Found(mem_decr_res(S.mem, t, k)))

store_delete(S, up, t, k) ==
  IF up
    THEN Out(redis_delete(S.redis, k), S.mem, NotFound)
    ELSE Out(S.redis, mem_delete(S.mem, k), NotFound)

----------------------------------------------------------------------------
(* The demo endpoints: plan table, keys, auth gate.                        *)

Plans == {"BASIC", "PRO"}

PLAN_LIMITS ==
  [BASIC |-> [post_rpm |-> 6, get_rpm |-> 24, poll_min_interval_s |-> 3,
              poll_max_count |-> 40, max_active |-> 1, zombie_timeout_s |-> 300,
              retention_days |-> 7, poll_delay_ms |-> 3000],
   PRO   |-> [post_rpm |-> 24, get_rpm |-> 96, poll_min_interval_s |-> 2,
              poll_max_count |-> 60, max_active |-> 3, zombie_timeout_s |-> 600,
              retention_days |-> 30, poll_delay_ms |-> 2000]]

TOMBSTONE_TTL_S == 90 * 24 * 3600
MAX_BODY_BYTES == 4096
MAX_QUESTION_LEN == 512
RPM_BUCKET_S == 60
RETRY_AFTER_RPM == 60
RETRY_AFTER_CAP == 900

rk_run(run_id) == <<"run", run_id>>
rk_tombstone(run_id) == <<"tombstone", run_id>>
rk_rate_post(actor_key) == <<"rate_post", actor_key>>
rk_rate_get(actor_key) == <<"rate_get", actor_key>>
rk_active(actor_key) == <<"active", actor_key>>
rk_poll_count(actor_key, run_id) == <<"poll_count", actor_key, run_id>>
rk_poll_last(actor_key, run_id) == <<"poll_last", actor_key, run_id>>

\* str.strip() on the configured secret, over the values the model draws.
Strip(s) == IF s = " " THEN "" ELSE s

IsBearer(auth) == auth \in {"Bearer tok", "Bearer bad"}

\* auth[7:]
BearerToken(auth) == IF auth = "Bearer tok" THEN "tok" ELSE "bad"

\* _verify_rapid_auth with the proxy-secret comparison made before the
\* check that a secret is configured
verify_rapid_auth_proxy_first(cred) ==
  LET expected_proxy == Strip(cred.secret)
  IN  IF cred.proxy # expected_proxy THEN 401
      ELSE IF expected_proxy = "" THEN 503
      ELSE 0

\* _verify_rapid_auth: 0 when the request passes, else the status raised.
\* cred = [secret, token: the environment; proxy, auth: the request headers]
verify_rapid_auth(cred) ==
  LET expected_proxy == Strip(cred.secret)
  IN  IF expected_proxy = "" THEN 503
      ELSE IF cred.proxy # expected_proxy THEN 401
      ELSE IF cred.token # "" /\ cred.auth # ""
        THEN IF ~IsBearer(cred.auth) THEN 401
             ELSE IF BearerToken(cred.auth) # cred.token THEN 401
             ELSE 0
      ELSE 0

\* _check_rpm: 0 for None (allowed), else the Retry-After it returns.
check_rpm_res(count, limit) == IF count > limit THEN RETRY_AFTER_RPM ELSE 0

\* math.ceil(x) of x = n / TicksPerSec seconds
CeilSecs(n) == -((-n) \div TicksPerSec)

\* int(x) of x = n / TicksPerSec seconds: truncation toward zero
IntSecs(n) == IF n >= 0 THEN n \div TicksPerSec ELSE -((-n) \div TicksPerSec)

Secs(n) == n * TicksPerSec

NoRun == [run_id |-> 0, status |-> "NONE", plan |-> "BASIC", created_at |-> 0,
          owner_key |-> "", actor_key |-> "", retention_until |-> 0,
          result |-> {}]

NoBody == [bytes |-> 0, json |-> TRUE, extra |-> FALSE, qlen |-> 0]

IdleReq == [pc |-> "idle", op |-> "none", actor |-> "", plan |-> "BASIC", run |-> 0,
            body |-> NoBody, s3 |-> "ok", t0 |-> 0, now0 |-> 0, now_ts |-> 0,
            rd |-> NoRun, throttle |-> FALSE, active |-> 0, secret |-> ""]

NoResp == [op |-> "none", actor |-> "", plan |-> "BASIC", run |-> 0, status |-> 0,
           why |-> "none", retry |-> 0, runStatus |-> "NONE", late |-> FALSE,
           throttle |-> FALSE, active |-> 0, secret |-> "", bytes |-> 0,
           s3 |-> "ok", content |-> {}]

\* A response to request rq: status, which check produced it, Retry-After
\* (0: no such header).
Resp(W, rq, status, why, retry) ==
  [NoResp EXCEPT !.op = rq.op, !.actor = rq.actor, !.plan = rq.plan, !.run = rq.run,
                 !.status = status, !.why = why, !.retry = retry,
                 !.late = /\ rq.op = "poll"
                          /\ rq.run \in DOMAIN W.jobs
                          /\ rq.t0 > W.jobs[rq.run].retention_until,
                 !.throttle = rq.throttle, !.active = rq.active, !.secret = rq.secret,
                 !.bytes = rq.body.bytes, !.s3 = rq.s3]

With(W, o) == [W EXCEPT !.redis = o.redis, !.mem = o.mem]

Done(W, r) == [W |-> [W EXCEPT !.resp = r], rq |-> IdleReq]

Go(W, rq) == [W |-> W, rq |-> rq]

----------------------------------------------------------------------------
(* create_demo_run and get_demo_run, cut at every call to the store: each  *)
(* step takes the world W = [redis, mem, jobs, okLog, nextRun, resp], the  *)
(* request's locals rq, the clock reading t and whether Redis answers, and *)
(* gives the new world and locals. A request is done when its pc is idle.  *)

\* DemoRunCreateRequest.model_validate: inputs.question present, at most
\* MAX_QUESTION_LEN characters, no unrecognised field.
model_validate(body) == ~body.extra /\ body.qlen >= 0 /\ body.qlen <= MAX_QUESTION_LEN

\* The body checks with the JSON parse and the validation ahead of the size
\* guard
body_check_parse_first(body) ==
  IF body.bytes # 0 /\ ~body.json THEN [status |-> 422, why |-> "json"]
  ELSE IF ~model_validate(body) THEN [status |-> 422, why |-> "schema"]
  ELSE IF body.bytes > MAX_BODY_BYTES THEN [status |-> 413, why |-> "size"]
  ELSE [status |-> 0, why |-> "ok"]

\* Body size guard, JSON parse (an empty body reads as {}), validation
body_check(body) ==
  IF body.bytes > MAX_BODY_BYTES THEN [status |-> 413, why |-> "size"]
  ELSE IF body.bytes # 0 /\ ~body.json THEN [status |-> 422, why |-> "json"]
  ELSE IF ~model_validate(body) THEN [status |-> 422, why |-> "schema"]
  ELSE [status |-> 0, why |-> "ok"]

\* POST rate check, body size guard, JSON parse, schema validation
create_rate(W, rq, t, up) ==
  LET lim == PLAN_LIMITS[rq.plan]
      o == store_incr(W, up, t, rk_rate_post(rq.actor), RPM_BUCKET_S)
      W1 == With(W, o)
      retry_after == check_rpm_res(o.res.val, lim.post_rpm)
  IN  IF retry_after # 0 THEN Done(W1, Resp(W1, rq, 429, "rate", retry_after))
      ELSE IF body_check(rq.body).status # 0
        THEN Done(W1, Resp(W1, rq, body_check(rq.body).status, body_check(rq.body).why, 0))
      ELSE Go(W1, [rq EXCEPT !.pc = "active_get"])

\* active_count >= limits["max_active"]
cap_reached_gt(active_count, max_active) == active_count > max_active

cap_reached(active_count, max_active) == active_count >= max_active

\* Concurrency limit; then run_id, now, retention_until
create_active_get(W, rq, t, up) ==
  LET lim == PLAN_LIMITS[rq.plan]
      o == store_get(W, up, t, rk_active(rq.actor))
      W1 == With(W, o)
      active_count == IF o.res.found THEN o.res.val ELSE 0
  IN  IF cap_reached(active_count, lim.max_active)
        THEN Done(W1, Resp(W1, [rq EXCEPT !.active = active_count],
                           429, "concurrency", RETRY_AFTER_CAP))
        ELSE Go([W1 EXCEPT !.nextRun = W.nextRun + 1],
                [rq EXCEPT !.pc = "persist", !.run = W.nextRun, !.now0 = t,
                           !.active = active_count,
                           !.rd = [NoRun EXCEPT !.run_id = W.nextRun]])

\* "status": "COMPLETED"   (immediate for demo, no real async worker)
persisted_status == "COMPLETED"

\* The object store as a request finds it: working, no client to be had
\* (get_s3_client raises), or a client whose calls raise
S3Envs == {"ok", "no_client", "call_fails"}

\* _get_s3_for_demo: the client, or None
get_s3_for_demo(env) == IF env = "no_client" THEN "none" ELSE "client"

\* _store_result_in_s3 letting the upload's exception through
store_result_in_s3_raising(env) ==
  IF get_s3_for_demo(env) = "none" THEN "none"
  ELSE IF env = "call_fails" THEN "raise"
  ELSE "info"

\* _store_result_in_s3: (bucket, key), or None when there is no client or
\* the upload raises
store_result_in_s3(env) ==
  IF get_s3_for_demo(env) = "none" THEN "none"
  ELSE IF env = "call_fails" THEN "none"
  ELSE "info"

\* _generate_presigned_url: (url, expires_at), or None when there is no
\* client or the call raises
generate_presigned_url(env) ==
  IF get_s3_for_demo(env) = "none" THEN "none"
  ELSE IF env = "call_fails" THEN "none"
  ELSE "info"

\* run_data keeping the presigned URL next to the pointer
result_fields_with_url(s3_info) ==
  IF s3_info = "info" THEN {"result_bucket", "result_key", "presigned_url", "expires_at"}
  ELSE {"result_inline_json"}

\* run_data's result fields: the pointer if the upload returned one, the
\* payload otherwise
result_fields(s3_info) ==
  IF s3_info = "info" THEN {"result_bucket", "result_key"} ELSE {"result_inline_json"}

\* The keys of the record create_demo_run writes
run_data_keys(rd) ==
  {"run_id", "status", "plan", "created_at", "owner_key", "actor_key", "inputs_hash",
   "inputs_len", "result_sha256", "retention_until"} \cup rd.result

\* The content of get_demo_run's 200 response
poll_content(rd, presigned_info) ==
  IF rd.status = "COMPLETED"
    THEN {"run_id", "status", "created_at", "meta", "result_inline"}
           \cup (IF {"result_bucket", "result_key"} \subseteq rd.result /\ presigned_info = "info"
                   THEN {"result_download"} ELSE {})
    ELSE {"run_id", "status", "created_at", "meta", "poll"}

\* create_demo_run taking an active slot for the job it persists
create_persist_counting(W, rq, t, up) ==
  LET lim == PLAN_LIMITS[rq.plan]
      s3_info == store_result_in_s3(rq.s3)
      run_data == [run_id |-> rq.run, status |-> persisted_status, plan |-> rq.plan,
                   created_at |-> rq.now0, owner_key |-> rq.actor,
                   actor_key |-> rq.actor,
                   retention_until |-> rq.now0 + Secs(lim.retention_days * 24 * 3600),
                   result |-> result_fields(s3_info)]
      o1 == store_set(W, up, t, rk_run(rq.run), run_data, lim.retention_days * 24 * 3600)
      o == store_incr(With(W, o1), up, t, rk_active(rq.actor), 0)
      W1 == [With(W, o) EXCEPT !.jobs = Put(W.jobs, rq.run, run_data)]
  IN  IF s3_info = "raise" THEN Done(W, Resp(W, rq, 500, "s3", 0))
      ELSE Done(W1, [Resp(W1, rq, 202, "created", 0) EXCEPT
                       !.runStatus = "QUEUED",
                       !.content = {"run_id", "status", "poll_url", "created_at",
                                    "poll", "meta"}])

\* S3 upload (its outcome follows rq.s3), run_data, _store_set with the
\* retention as TTL, receipt. An exception leaving the upload helper would
\* leave the handler.
create_persist(W, rq, t, up) ==
  LET lim == PLAN_LIMITS[rq.plan]
      s3_info == store_result_in_s3(rq.s3)
      run_data == [run_id |-> rq.run, status |-> persisted_status, plan |-> rq.plan,
                   created_at |-> rq.now0, owner_key |-> rq.actor,
                   actor_key |-> rq.actor,
                   retention_until |-> rq.now0 + Secs(lim.retention_days * 24 * 3600),
                   result |-> result_fields(s3_info)]
      o == store_set(W, up, t, rk_run(rq.run), run_data, lim.retention_days * 24 * 3600)
      W1 == [With(W, o) EXCEPT !.jobs = Put(W.jobs, rq.run, run_data)]
  IN  IF s3_info = "raise" THEN Done(W, Resp(W, rq, 500, "s3", 0))
      ELSE Done(W1, [Resp(W1, rq, 202, "created", 0) EXCEPT
                       !.runStatus = "QUEUED",
                       !.content = {"run_id", "status", "poll_url", "created_at",
                                    "poll", "meta"}])

\* GET rate check
poll_rate(W, rq, t, up) ==
  LET lim == PLAN_LIMITS[rq.plan]
      o == store_incr(W, up, t, rk_rate_get(rq.actor), RPM_BUCKET_S)
      W1 == With(W, o)
      retry_after == check_rpm_res(o.res.val, lim.get_rpm)
  IN  IF retry_after # 0 THEN Done(W1, Resp(W1, rq, 429, "rate", retry_after))
      ELSE Go(W1, [rq EXCEPT !.pc = "tomb"])

\* The tombstone check answering 410 to whoever polls
poll_tomb_gone_for_all(W, rq, t, up) ==
  LET o == store_get(W, up, t, rk_tombstone(rq.run))
      W1 == With(W, o)
  IN  IF o.res.found THEN Done(W1, Resp(W1, rq, 410, "tombstone", 0))
      ELSE Go(W1, [rq EXCEPT !.pc = "load"])

\* Tombstone check
poll_tomb(W, rq, t, up) ==
  LET o == store_get(W, up, t, rk_tombstone(rq.run))
      W1 == With(W, o)
  IN  IF o.res.found
        THEN IF o.res.val.owner_key = rq.actor
               THEN Done(W1, Resp(W1, rq, 410, "tombstone", 0))
               ELSE Done(W1, Resp(W1, rq, 404, "tombstone", 0))
        ELSE Go(W1, [rq EXCEPT !.pc = "load"])

\* run_data["status"] = "TIMEOUT"
zombie_status_queued == "QUEUED"

zombie_status == "TIMEOUT"

\* _maybe_enforce_zombie, up to its first store call
is_zombie(rd, t) ==
  /\ rd.status \in {"QUEUED", "PROCESSING"}
  /\ t - rd.created_at > Secs(PLAN_LIMITS[rd.plan].zombie_timeout_s)

\* get_demo_run's load step with the retention check after the poll
\* limits instead of before them
poll_load_limits_first(W, rq, t, up) ==
  LET o == store_get(W, up, t, rk_run(rq.run))
      W1 == With(W, o)
  IN  IF ~o.res.found THEN Done(W1, Resp(W1, rq, 404, "missing", 0))
      ELSE Go(W1, [rq EXCEPT !.pc = "last_get", !.rd = o.res.val])

\* Load run, retention check, zombie check
poll_load(W, rq, t, up) ==
  LET o == store_get(W, up, t, rk_run(rq.run))
      W1 == With(W, o)
      rd == o.res.val
  IN  IF ~o.res.found THEN Done(W1, Resp(W1, rq, 404, "missing", 0))
      ELSE IF t > rd.retention_until
        THEN Go(W1, [rq EXCEPT !.pc = "tomb_set", !.rd = rd])
      ELSE IF is_zombie(rd, t)
        THEN Go(W1, [rq EXCEPT !.pc = "zombie_decr", !.rd = [rd EXCEPT !.status = zombie_status]])
      ELSE Go(W1, [rq EXCEPT !.pc = "last_get", !.rd = rd])

\* _create_tombstone
poll_tomb_set(W, rq, t, up) ==
  LET o == store_set(W, up, t, rk_tombstone(rq.run),
                     [owner_key |-> rq.rd.owner_key], TOMBSTONE_TTL_S)
  IN  Go(With(W, o), [rq EXCEPT !.pc = "run_del"])

\* the expired branch without its _store_delete
poll_run_del_kept(W, rq, t, up) ==
  IF rq.rd.owner_key = rq.actor
    THEN Done(W, Resp(W, rq, 410, "expired", 0))
    ELSE Done(W, Resp(W, rq, 404, "expired", 0))

\* _store_delete(_rk_run(run_id)), then 410 to the owner and 404 to others
poll_run_del(W, rq, t, up) ==
  LET o == store_delete(W, up, t, rk_run(rq.run))
      W1 == With(W, o)
  IN  IF rq.rd.owner_key = rq.actor
        THEN Done(W1, Resp(W1, rq, 410, "expired", 0))
        ELSE Done(W1, Resp(W1, rq, 404, "expired", 0))

\* _maybe_enforce_zombie: _store_decr(_rk_active(...))
poll_zombie_decr(W, rq, t, up) ==
  LET o == store_decr(W, up, t, rk_active(rq.rd.actor_key))
  IN  Go(With(W, o), [rq EXCEPT !.pc = "zombie_set"])

\* _maybe_enforce_zombie: ttl = max(1, int(remaining)), _store_set(run)
poll_zombie_set(W, rq, t, up) ==
  LET ttl == Max(1, IntSecs(rq.rd.retention_until - t))
      o == store_set(W, up, t, rk_run(rq.run), rq.rd, ttl)
  IN  Go(With(W, o), [rq EXCEPT !.pc = "last_get"])

\* math.ceil(min_interval - elapsed)
retry_after_floor(min_interval, elapsed) == IntSecs(Secs(min_interval) - elapsed)

retry_after_ceil(min_interval, elapsed) == CeilSecs(Secs(min_interval) - elapsed)

\* elapsed < min_interval
too_fast_never(elapsed, min_interval) == FALSE

too_fast(elapsed, min_interval) == elapsed < Secs(min_interval)

\* Whether an accepted poll of this (actor, run) is on record less than the
\* plan's minimum interval before t.
Throttled(W, rq, t) ==
  LET k == <<rq.actor, rq.run>>
  IN  /\ k \in DOMAIN W.okLog
      /\ t - W.okLog[k][Len(W.okLog[k])].t < Secs(PLAN_LIMITS[rq.plan].poll_min_interval_s)

\* The cadence check stamping the poll before it decides
poll_last_get_stamping(W, rq, t, up) ==
  LET lim == PLAN_LIMITS[rq.plan]
      o == store_get(W, up, t, rk_poll_last(rq.actor, rq.run))
      o2 == store_set(With(W, o), up, t, rk_poll_last(rq.actor, rq.run), t, TOMBSTONE_TTL_S)
      W1 == With(With(W, o), o2)
      rq1 == [rq EXCEPT !.now_ts = t, !.throttle = Throttled(W, rq, t)]
  IN  IF o.res.found /\ too_fast(t - o.res.val, lim.poll_min_interval_s)
        THEN Done(W1, Resp(W1, rq1, 429, "cadence",
                           retry_after_ceil(lim.poll_min_interval_s, t - o.res.val)))
        ELSE Go(W1, [rq1 EXCEPT !.pc = "count_get"])

\* Poll rate limiting: now_ts, last poll, cadence check
poll_last_get(W, rq, t, up) ==
  LET lim == PLAN_LIMITS[rq.plan]
      o == store_get(W, up, t, rk_poll_last(rq.actor, rq.run))
      W1 == With(W, o)
      rq1 == [rq EXCEPT !.now_ts = t, !.throttle = Throttled(W, rq, t)]
  IN  IF o.res.found /\ too_fast(t - o.res.val, lim.poll_min_interval_s)
        THEN Done(W1, Resp(W1, rq1, 429, "cadence",
                           retry_after_ceil(lim.poll_min_interval_s, t - o.res.val)))
        ELSE Go(W1, [rq1 EXCEPT !.pc = "count_get"])

\* Poll count ceiling
poll_count_get(W, rq, t, up) ==
  LET lim == PLAN_LIMITS[rq.plan]
      o == store_get(W, up, t, rk_poll_count(rq.actor, rq.run))
      W1 == With(W, o)
      poll_count == IF o.res.found THEN o.res.val ELSE 0
  IN  IF poll_count >= lim.poll_max_count
        THEN Done(W1, Resp(W1, rq, 429, "count", RETRY_AFTER_CAP))
        ELSE Go(W1, [rq EXCEPT !.pc = "last_set"])

\* _store_set(_rk_poll_last(...), str(now_ts), ex=TOMBSTONE_TTL_S)
poll_last_set(W, rq, t, up) ==
  LET o == store_set(W, up, t, rk_poll_last(rq.actor, rq.run), rq.now_ts, TOMBSTONE_TTL_S)
  IN  Go(With(W, o), [rq EXCEPT !.pc = "count_incr"])

Append1(log, k, e) == Put(log, k, IF k \in DOMAIN log THEN Append(log[k], e) ELSE <<e>>)

\* _store_incr(_rk_poll_count(...)), then the 200 response
poll_count_incr(W, rq, t, up) ==
  LET lim == PLAN_LIMITS[rq.plan]
      o == store_incr(W, up, t, rk_poll_count(rq.actor, rq.run), lim.retention_days * 86400)
      W1 == [With(W, o) EXCEPT
               !.okLog = Append1(W.okLog, <<rq.actor, rq.run>>,
                                 [t |-> rq.now_ts, plan |-> rq.plan])]
  IN  Done(W1, [Resp(W1, rq, 200, "ok", 0) EXCEPT
                  !.runStatus = rq.rd.status,
                  !.content = poll_content(rq.rd, generate_presigned_url(rq.s3))])

step(W, rq, t, up) ==
  CASE rq.pc = "create_rate" -> create_rate(W, rq, t, up)
    [] rq.pc = "active_get"  -> create_active_get(W, rq, t, up)
    [] rq.pc = "persist"     -> create_persist(W, rq, t, up)
    [] rq.pc = "poll_rate"   -> poll_rate(W, rq, t, up)
    [] rq.pc = "tomb"        -> poll_tomb(W, rq, t, up)
    [] rq.pc = "load"        -> poll_load(W, rq, t, up)
    [] rq.pc = "tomb_set"    -> poll_tomb_set(W, rq, t, up)
    [] rq.pc = "run_del"     -> poll_run_del(W, rq, t, up)
    [] rq.pc = "zombie_decr" -> poll_zombie_decr(W, rq, t, up)
    [] rq.pc = "zombie_set"  -> poll_zombie_set(W, rq, t, up)
    [] rq.pc = "last_get"    -> poll_last_get(W, rq, t, up)
    [] rq.pc = "count_get"   -> poll_count_get(W, rq, t, up)
    [] rq.pc = "last_set"    -> poll_last_set(W, rq, t, up)
    [] rq.pc = "count_incr"  -> poll_count_incr(W, rq, t, up)

\* A whole request, with no other request and no clock tick in between.
RECURSIVE Finish(_, _, _, _)
Finish(W, rq, t, up) ==
  IF rq.pc = "idle" THEN W
  ELSE LET o == step(W, rq, t, up) IN Finish(o.W, o.rq, t, up)

\* s3ok: the object store answers; otherwise its calls raise
S3Env(s3ok) == IF s3ok THEN "ok" ELSE "call_fails"

NewCreate(actor, plan, body, s3ok, secret, t) ==
  [IdleReq EXCEPT !.pc = "create_rate", !.op = "create", !.actor = actor, !.plan = plan,
                  !.body = body, !.s3 = S3Env(s3ok), !.t0 = t, !.secret = secret]

NewPoll(actor, plan, run, s3ok, secret, t) ==
  [IdleReq EXCEPT !.pc = "poll_rate", !.op = "poll", !.actor = actor, !.plan = plan,
                  !.run = run, !.s3 = S3Env(s3ok), !.t0 = t, !.secret = secret]

----------------------------------------------------------------------------
(* The clock. It advances by one tick, or to an instant at which a key's   *)
(* expiry takes effect (Redis: at the expiry; the in-process map: one tick *)
(* after it, its check being strict).                                      *)

DemoIdle == UNCHANGED <<reqs, started, nextRun, jobs, okLog, resp>>

Expiries(m) == {m[k].ex : k \in DOMAIN m} \ {NoExpiry}

\* Instants at which a demo check changes its answer: the end of a poll's
\* minimum interval (and the tick before it), the tick after a retention
\* deadline, the tick after a zombie timeout.
DemoInstants ==
  LET lasts == {k \in DOMAIN redis : k[1] = "poll_last"}
      runs  == {k \in DOMAIN redis : k[1] = "run"}
  IN  UNION {{redis[k].val + Secs(PLAN_LIMITS[p].poll_min_interval_s) - 1,
              redis[k].val + Secs(PLAN_LIMITS[p].poll_min_interval_s)} :
             k \in lasts, p \in Plans}
      \cup {redis[k].val.retention_until + 1 : k \in runs}
      \cup {redis[k].val.created_at
              + Secs(PLAN_LIMITS[redis[k].val.plan].zombie_timeout_s) + 1 :
             k \in {r \in runs : redis[r].val.status \in {"QUEUED", "PROCESSING"}}}

TickTargets ==
  LET es == Expiries(redis) \cup Expiries(mem) \cup Expiries(ideal)
  IN  {now + 1} \cup {t \in es \cup {e + 1 : e \in es} \cup DemoInstants : t > now}

Advance ==
  /\ \E t \in TickTargets :
       /\ now' = t
       /\ redis' = Purge(redis, t)
       /\ ideal' = Purge(ideal, t)
  /\ ticks' = ticks + 1
  /\ UNCHANGED <<mem, redisUp, lastRes, idealRes, ops, tier, calls, allowedCnt, rpmStarted>>
  /\ DemoIdle

Tick ==
  /\ ticks < MaxTicks
  /\ Advance

----------------------------------------------------------------------------
(* Callers of the storage abstraction, one call at a time, with the shared *)
(* store going down and coming back between calls. `ideal` is the shared   *)
(* store as it would be had it served every call.                          *)

StoreKeys == {<<"k1">>}
StoreVals == {1, 2}
StoreTTLs == {0, 1}

RpmIdle == UNCHANGED <<tier, calls, allowedCnt, rpmStarted, reqs, started, nextRun, jobs, okLog, resp>>

Apply(o, i) ==
  /\ redis' = o.redis
  /\ mem' = o.mem
  /\ ideal' = i.redis
  /\ lastRes' = o.res
  /\ idealRes' = i.res
  /\ ops' = ops + 1
  /\ UNCHANGED <<now, ticks, redisUp>>
  /\ RpmIdle

Real == [redis |-> redis, mem |-> mem]
Ideal == [redis |-> ideal, mem |-> Empty]

StoreGet ==
  \E k \in StoreKeys :
    /\ ops < MaxOps
    /\ Apply(store_get(Real, redisUp, now, k), store_get(Ideal, TRUE, now, k))

StoreSet ==
  \E k \in StoreKeys, v \in StoreVals, ex \in StoreTTLs :
    /\ ops < MaxOps
    /\ Apply(store_set(Real, redisUp, now, k, v, ex), store_set(Ideal, TRUE, now, k, v, ex))

StoreIncr ==
  \E k \in StoreKeys, ex \in StoreTTLs :
    /\ ops < MaxOps
    /\ Apply(store_incr(Real, redisUp, now, k, ex), store_incr(Ideal, TRUE, now, k, ex))

StoreDecr ==
  \E k \in StoreKeys :
    /\ ops < MaxOps
    /\ Apply(store_decr(Real, redisUp, now, k), store_decr(Ideal, TRUE, now, k))

StoreDelete ==
  \E k \in StoreKeys :
    /\ ops < MaxOps
    /\ Apply(store_delete(Real, redisUp, now, k), store_delete(Ideal, TRUE, now, k))

Outage ==
  /\ redisUp
  /\ redisUp' = FALSE
  /\ UNCHANGED <<now, ticks, redis, mem, ideal, lastRes, idealRes, ops>>
  /\ RpmIdle

Recover ==
  /\ ~redisUp
  /\ redisUp' = TRUE
  /\ UNCHANGED <<now, ticks, redis, mem, ideal, lastRes, idealRes, ops>>
  /\ RpmIdle

InitCommon ==
  /\ now = 0
  /\ ticks = 0
  /\ redis = Empty
  /\ mem = Empty
  /\ redisUp = TRUE
  /\ ideal = Empty
  /\ lastRes = NotFound
  /\ idealRes = NotFound
  /\ ops = 0

InitRpmIdle ==
  /\ tier = [limit |-> 0, window |-> 1]
  /\ calls = Empty
  /\ allowedCnt = Empty
  /\ rpmStarted = 0

InitDemoIdle ==
  /\ reqs = Empty
  /\ started = 0
  /\ nextRun = 1
  /\ jobs = Empty
  /\ okLog = Empty
  /\ resp = NoResp

InitStore == InitCommon /\ InitRpmIdle /\ InitDemoIdle

NextStore ==
  \/ StoreGet
  \/ StoreSet
  \/ StoreIncr
  \/ StoreDecr
  \/ StoreDelete
  \/ Outage
  \/ Recover
  \/ Tick

SpecStore == InitStore /\ [][NextStore]_vars

----------------------------------------------------------------------------
(* EnforcementEngine.check_rpm_limit, called concurrently: every Redis     *)
(* command of a call is a step of its own, and the clock may advance       *)
(* between any two steps. The engine talks to Redis directly (self.redis). *)

RpmProcs == 1 .. NumRpmProcs
Workspaces == {"w1", "w2"}
RpmLimits == 0 .. MaxRpmLimit

\* ssot.is_zero_unlimited(rpm_limit, "rate_limit_rpm")
is_zero_unlimited(limit) == limit = 0

IdleCall == [pc |-> "idle", ws |-> "w1", win |-> 0, newCount |-> 0,
             res |-> "none", current |-> 0, retry |-> 0,
             check |-> "none", limit |-> 0, window_seconds |-> 0, cmds |-> 0,
             hints |-> {}]

\* The retry hints in the ProblemDetails that check_rpm_limit builds: its
\* arguments are type, title, status, detail and violated_policies, and
\* ViolatedPolicy has policy_name, limit, current and window_seconds; the
\* local retry_after is passed to neither.
ProblemDetailsHints(retry_after) == {}

rpm_key(ws, win) == <<"rpm", ws, win>>

CallKey(p) == rpm_key(calls[p].ws, calls[p].win)

\* now_window = int(datetime.utcnow().timestamp() / window_seconds)
now_window(t, window) == t \div (window * TicksPerSec)

Bump(cnt, k) == Put(cnt, k, IF k \in DOMAIN cnt THEN cnt[k] + 1 ELSE 1)

StoreIdle == UNCHANGED <<mem, redisUp, ideal, lastRes, idealRes, ops, reqs, started, nextRun, jobs, okLog, resp>>

\* What follows the increment (and the EXPIRE of a first request): the limit
\* check, which either lets the call return None or sends it to the rollback.
AfterCount(p, c) ==
  IF c.newCount > tier.limit
    THEN /\ calls' = [calls EXCEPT ![p] = [c EXCEPT !.pc = "decr"]]
         /\ UNCHANGED allowedCnt
    ELSE /\ calls' = [calls EXCEPT ![p] = [IdleCall EXCEPT !.res = "allowed"]]
         /\ allowedCnt' = Bump(allowedCnt, <<c.ws, c.win>>)

RpmStart ==
  \E p \in RpmProcs, ws \in Workspaces :
    /\ calls[p].pc = "idle"
    /\ rpmStarted < MaxRpmCalls
    /\ rpmStarted' = rpmStarted + 1
    /\ IF is_zero_unlimited(tier.limit)
         THEN calls' = [calls EXCEPT ![p] = [IdleCall EXCEPT !.res = "allowed"]]
         ELSE calls' = [calls EXCEPT ![p] =
                [IdleCall EXCEPT !.pc = "incr", !.ws = ws,
                                 !.win = now_window(now, tier.window)]]
    /\ UNCHANGED <<now, ticks, redis, tier, allowedCnt>>
    /\ StoreIdle

RpmIncr ==
  \E p \in RpmProcs :
    /\ calls[p].pc = "incr"
    /\ redis' = redis_incr_cmd(redis, CallKey(p))
    /\ LET c == [calls[p] EXCEPT !.newCount = redis'[CallKey(p)].val]
       IN  IF c.newCount = 1
             THEN /\ calls' = [calls EXCEPT ![p] = [c EXCEPT !.pc = "expire"]]
                  /\ UNCHANGED allowedCnt
             ELSE AfterCount(p, c)
    /\ UNCHANGED <<now, ticks, tier, rpmStarted>>
    /\ StoreIdle

RpmExpire ==
  \E p \in RpmProcs :
    /\ calls[p].pc = "expire"
    /\ redis' = redis_expire_cmd(redis, now, CallKey(p), tier.window)
    /\ AfterCount(p, calls[p])
    /\ UNCHANGED <<now, ticks, tier, rpmStarted>>
    /\ StoreIdle

\* self.redis.decr(rpm_key): the compensating decrement
RpmRollbackSkipped(r, k) == r

RpmRollback(r, k) == redis_decr_cmd(r, k)

RpmDecr ==
  \E p \in RpmProcs :
    /\ calls[p].pc = "decr"
    /\ redis' = RpmRollback(redis, CallKey(p))
    /\ calls' = [calls EXCEPT ![p].pc = "ttl"]
    /\ UNCHANGED <<now, ticks, tier, allowedCnt, rpmStarted>>
    /\ StoreIdle

RpmTtl ==
  \E p \in RpmProcs :
    /\ calls[p].pc = "ttl"
    /\ calls' = [calls EXCEPT ![p] =
         [IdleCall EXCEPT !.res = "violation",
                          !.check = "rpm",
                          !.ws = calls[p].ws,
                          !.win = calls[p].win,
                          !.newCount = calls[p].newCount,
                          !.limit = tier.limit,
                          !.window_seconds = tier.window,
                          !.current = calls[p].newCount - 1,
                          !.retry = Max(1, redis_ttl_cmd(redis, now, CallKey(p))),
                          !.hints = ProblemDetailsHints(
                                      Max(1, redis_ttl_cmd(redis, now, CallKey(p))))]]
    /\ UNCHANGED <<now, ticks, redis, tier, allowedCnt, rpmStarted>>
    /\ StoreIdle

InitRpm ==
  /\ InitCommon
  /\ tier \in [limit : RpmLimits, window : {RpmWindowSecs}]
  /\ calls = [p \in RpmProcs |-> IdleCall]
  /\ allowedCnt = Empty
  /\ rpmStarted = 0
  /\ InitDemoIdle

NextRpm ==
  \/ RpmStart
  \/ RpmIncr
  \/ RpmExpire
  \/ RpmDecr
  \/ RpmTtl
  \/ Tick

SpecRpm == InitRpm /\ [][NextRpm]_vars

RpmKeys == {k \in DOMAIN redis : k[1] = "rpm"}

\* Calls that have incremented the key over the limit and not yet rolled back.
Pending(k) == Cardinality({p \in RpmProcs : /\ calls[p].pc \in {"expire", "decr"}
                                            /\ calls[p].newCount > tier.limit
                                            /\ CallKey(p) = k})

AllCallsFinished == \A p \in RpmProcs : calls[p].pc = "idle"

C2_AllowedWithinLimit ==
  ~is_zero_unlimited(tier.limit) =>
    \A k \in DOMAIN allowedCnt : allowedCnt[k] <= tier.limit

----------------------------------------------------------------------------
(* The three checks of the EnforcementEngine, each as one call made at one *)
(* instant by a single caller, over tiers and grace policies drawn from    *)
(* small sets and a usage counter that the metering side has written.      *)

Quotas == {0, 50, 100}
HardCaps == {0, 50, 100}
GraceConfigs ==
  {[enabled |-> FALSE, max_grace_percent |-> 29, max_grace_dc |-> 100]}
    \cup [enabled : {TRUE}, max_grace_percent : {1, 29}, max_grace_dc : {10, 100}]
Usages == {0, 49, 50, 100, 109, 110, 128, 129, 150, 151, 200, 257, 258}
CurrentMonth == "2026-02"

\* usage_key = f"usage:{workspace_id}:{current_month}"
usage_key(ws, month) == <<"usage", ws, month>>

\* int(self.redis.get(usage_key) or 0)
current_usage(r, ws) ==
  IF usage_key(ws, CurrentMonth) \in DOMAIN r THEN r[usage_key(ws, CurrentMonth)].val ELSE 0

\* The (percent, cap) pairs of the model for which the double product
\* cap * (percent / 100) lies just below the exact product, so that int()
\* gives one less than the exact quotient: 100 * 0.29 = 28.999999999999996,
\* 200 * 0.29 = 57.99999999999999.
RoundsBelow == {<<29, 100>>, <<29, 200>>}

\* int(hard_cap * grace_percent) with grace_percent = max_grace_percent / 100
int_percent_of(cap, percent) ==
  (cap * percent) \div 100 - (IF <<percent, cap>> \in RoundsBelow THEN 1 ELSE 0)

\* _calculate_grace_overage
calculate_grace_overage(grace, hard_cap) ==
  IF ~grace.enabled THEN 0
  ELSE Min(int_percent_of(hard_cap, grace.max_grace_percent), grace.max_grace_dc)

Allowed(check, n) == [IdleCall EXCEPT !.check = check, !.res = "allowed", !.cmds = n]

\* check_rpm_limit as one uninterrupted call: [redis, call]
check_rpm_limit(r, t, ws, tr) ==
  IF is_zero_unlimited(tr.limit) THEN [redis |-> r, call |-> Allowed("rpm", 0)]
  ELSE
    LET k == rpm_key(ws, now_window(t, tr.window))
        r1 == redis_incr_cmd(r, k)
        new_count == r1[k].val
        r2 == IF new_count = 1 THEN redis_expire_cmd(r1, t, k, tr.window) ELSE r1
        n2 == IF new_count = 1 THEN 2 ELSE 1
        r3 == redis_decr_cmd(r2, k)
    IN  IF new_count > tr.limit
          THEN [redis |-> r3,
                call |-> [IdleCall EXCEPT !.check = "rpm", !.res = "violation",
                            !.ws = ws, !.win = now_window(t, tr.window),
                            !.newCount = new_count,
                            !.limit = tr.limit, !.current = new_count - 1,
                            !.window_seconds = tr.window,
                            !.retry = Max(1, redis_ttl_cmd(r3, t, k)),
                            !.hints = ProblemDetailsHints(Max(1, redis_ttl_cmd(r3, t, k))),
                            !.cmds = n2 + 2]]
          ELSE [redis |-> r2,
                call |-> [Allowed("rpm", n2) EXCEPT !.ws = ws,
                            !.win = now_window(t, tr.window), !.newCount = new_count]]

\* check_monthly_dc_quota
check_monthly_dc_quota(r, ws, tr) ==
  IF is_zero_unlimited(tr.monthly_quota_dc) THEN Allowed("quota", 0)
  ELSE IF current_usage(r, ws) >= tr.monthly_quota_dc
    THEN [IdleCall EXCEPT !.check = "quota", !.res = "violation",
                          !.limit = tr.monthly_quota_dc,
                          !.current = current_usage(r, ws), !.cmds = 1]
    ELSE Allowed("quota", 1)

\* check_hard_overage_cap, were a zero monthly quota to bypass it as well
check_hard_overage_cap_any_zero(r, ws, tr) ==
  LET total_cap == tr.monthly_quota_dc + tr.hard_overage_dc_cap
      effective_cap == total_cap + calculate_grace_overage(tr.grace, total_cap)
  IN  IF is_zero_unlimited(tr.hard_overage_dc_cap) \/ is_zero_unlimited(tr.monthly_quota_dc)
        THEN Allowed("hardcap", 0)
      ELSE IF current_usage(r, ws) >= effective_cap
        THEN [IdleCall EXCEPT !.check = "hardcap", !.res = "violation",
                              !.limit = total_cap,
                              !.current = current_usage(r, ws), !.cmds = 1]
        ELSE Allowed("hardcap", 1)

\* check_hard_overage_cap
check_hard_overage_cap(r, ws, tr) ==
  LET hard_cap == tr.hard_overage_dc_cap
      total_cap == tr.monthly_quota_dc + hard_cap
      grace_dc == calculate_grace_overage(tr.grace, total_cap)
      effective_cap == total_cap + grace_dc
  IN  IF is_zero_unlimited(hard_cap) THEN Allowed("hardcap", 0)
      ELSE IF current_usage(r, ws) >= effective_cap
        THEN [IdleCall EXCEPT !.check = "hardcap", !.res = "violation",
                              !.limit = total_cap,
                              !.current = current_usage(r, ws), !.cmds = 1]
        ELSE Allowed("hardcap", 1)

PricingIdle ==
  /\ UNCHANGED <<now, ticks, tier, allowedCnt>>
  /\ StoreIdle

CheckRpm ==
  /\ rpmStarted < MaxRpmCalls
  /\ rpmStarted' = rpmStarted + 1
  /\ LET o == check_rpm_limit(redis, now, "w1", tier)
     IN  /\ redis' = o.redis
         /\ calls' = [calls EXCEPT ![1] = o.call]
  /\ PricingIdle

CheckQuota ==
  /\ rpmStarted < MaxRpmCalls
  /\ rpmStarted' = rpmStarted + 1
  /\ calls' = [calls EXCEPT ![1] = check_monthly_dc_quota(redis, "w1", tier)]
  /\ UNCHANGED redis
  /\ PricingIdle

CheckHardCap ==
  /\ rpmStarted < MaxRpmCalls
  /\ rpmStarted' = rpmStarted + 1
  /\ calls' = [calls EXCEPT ![1] = check_hard_overage_cap(redis, "w1", tier)]
  /\ UNCHANGED redis
  /\ PricingIdle

InitPricing ==
  /\ now = 0
  /\ ticks = 0
  /\ \/ redis = Empty
     \/ \E u \in Usages :
          redis = (usage_key("w1", CurrentMonth) :> [val |-> u, ex |-> NoExpiry])
  /\ mem = Empty
  /\ redisUp = TRUE
  /\ ideal = Empty
  /\ lastRes = NotFound
  /\ idealRes = NotFound
  /\ ops = 0
  /\ tier \in [limit : RpmLimits, window : {RpmWindowSecs},
               monthly_quota_dc : Quotas, hard_overage_dc_cap : HardCaps,
               grace : GraceConfigs]
  /\ calls = (1 :> IdleCall)
  /\ allowedCnt = Empty
  /\ rpmStarted = 0
  /\ InitDemoIdle

NextPricing ==
  \/ CheckRpm
  \/ CheckQuota
  \/ CheckHardCap
  \/ Tick

SpecPricing == InitPricing /\ [][NextPricing]_vars

----------------------------------------------------------------------------
(* RateLimitHeadersGenerator next to the enforcement checks: a caller runs *)
(* checks and asks for the headers of the response, for allowed and for    *)
(* denied requests alike. A header set is a function from header names to  *)
(* the numbers the header is formatted from.                               *)

HttpConfigs == [enabled : BOOLEAN, retry_after_precedence : BOOLEAN]

\* int(self.redis.get(key) or 0)
int_get(r, k) == IF redis_get(r, k).found THEN redis_get(r, k).val ELSE 0

\* generate_rpm_headers, were it to count the request it describes
generate_rpm_headers_counting(r, t, ws, tr, include_retry_after) ==
  IF ~tr.http.enabled \/ is_zero_unlimited(tr.limit)
    THEN [redis |-> r, headers |-> Empty]
    ELSE LET rpm_k == rpm_key(ws, now_window(t, tr.window))
             r1 == redis_incr_cmd(r, rpm_k)
             ttl0 == redis_ttl_cmd(r1, t, rpm_k)
             ttl == IF ttl0 < 0 THEN tr.window ELSE ttl0
         IN  [redis |-> r1,
              headers |->
                ("RateLimit-Policy" :> <<"rpm", tr.limit, tr.window>>)
                  @@ ("RateLimit" :> <<"rpm", Max(0, tr.limit - r1[rpm_k].val), ttl>>)]

\* generate_rpm_headers: [redis, headers]
generate_rpm_headers(r, t, ws, tr, include_retry_after) ==
  IF ~tr.http.enabled THEN [redis |-> r, headers |-> Empty]
  ELSE IF is_zero_unlimited(tr.limit) THEN [redis |-> r, headers |-> Empty]
  ELSE
    LET rpm_k == rpm_key(ws, now_window(t, tr.window))
        current_count == int_get(r, rpm_k)
        remaining == Max(0, tr.limit - current_count)
        ttl0 == redis_ttl_cmd(r, t, rpm_k)
        ttl == IF ttl0 < 0 THEN tr.window ELSE ttl0
        headers == ("RateLimit-Policy" :> <<"rpm", tr.limit, tr.window>>)
                     @@ ("RateLimit" :> <<"rpm", remaining, ttl>>)
    IN  [redis |-> r,
         headers |-> IF include_retry_after /\ tr.http.retry_after_precedence
                       THEN headers @@ ("Retry-After" :> <<ttl>>)
                       ELSE headers]

\* window_seconds = 30 * 24 * 3600
MonthlyWindowSeconds == 30 * 24 * 3600

\* generate_monthly_dc_headers: [redis, headers]
generate_monthly_dc_headers(r, ws, tr) ==
  IF ~tr.http.enabled THEN [redis |-> r, headers |-> Empty]
  ELSE IF is_zero_unlimited(tr.monthly_quota_dc) THEN [redis |-> r, headers |-> Empty]
  ELSE
    LET remaining == Max(0, tr.monthly_quota_dc - current_usage(r, ws))
    IN  [redis |-> r,
         headers |-> ("RateLimit-Policy" :> <<"monthly_dc", tr.monthly_quota_dc, MonthlyWindowSeconds>>)
                       @@ ("RateLimit" :> <<"monthly_dc", remaining>>)]

HeadersIdle ==
  /\ UNCHANGED <<now, ticks, tier, calls, allowedCnt, rpmStarted>>
  /\ UNCHANGED <<mem, redisUp, ideal, idealRes, reqs, started, nextRun, jobs, okLog, resp>>

RpmHeaders ==
  \E include_retry_after \in BOOLEAN :
    /\ ops < MaxOps
    /\ ops' = ops + 1
    /\ LET o == generate_rpm_headers(redis, now, "w1", tier, include_retry_after)
       IN  /\ redis' = o.redis
           /\ lastRes' = [of |-> "rpm", include_retry_after |-> include_retry_after,
                          headers |-> o.headers]
    /\ HeadersIdle

MonthlyHeaders ==
  /\ ops < MaxOps
  /\ ops' = ops + 1
  /\ LET o == generate_monthly_dc_headers(redis, "w1", tier)
     IN  /\ redis' = o.redis
         /\ lastRes' = [of |-> "monthly_dc", include_retry_after |-> FALSE,
                        headers |-> o.headers]
  /\ HeadersIdle

InitHeaders ==
  /\ now = 0
  /\ ticks = 0
  /\ \/ redis = Empty
     \/ \E u \in {49, 50, 100} :
          redis = (usage_key("w1", CurrentMonth) :> [val |-> u, ex |-> NoExpiry])
  /\ mem = Empty
  /\ redisUp = TRUE
  /\ ideal = Empty
  /\ lastRes = [of |-> "none", include_retry_after |-> FALSE, headers |-> Empty]
  /\ idealRes = NotFound
  /\ ops = 0
  /\ tier \in [limit : RpmLimits, window : {RpmWindowSecs},
               monthly_quota_dc : Quotas, hard_overage_dc_cap : {0},
               grace : {[enabled |-> FALSE, max_grace_percent |-> 29, max_grace_dc |-> 100]},
               http : HttpConfigs]
  /\ calls = (1 :> IdleCall)
  /\ allowedCnt = Empty
  /\ rpmStarted = 0
  /\ InitDemoIdle

NextHeaders ==
  \/ CheckRpm
  \/ CheckQuota
  \/ RpmHeaders
  \/ MonthlyHeaders
  \/ Tick

SpecHeaders == InitHeaders /\ [][NextHeaders]_vars

----------------------------------------------------------------------------
(* The demo endpoints as a state machine: NumSlots requests in flight at a *)
(* time, each advancing one store call at a time, the clock advancing in   *)
(* between. The shared store is up throughout (its outages are studied on  *)
(* the storage abstraction itself, above).                                 *)

Slots == 1..NumSlots
Actors == {"a1", "a2"}
UnknownRun == 0

Secrets == {"", " ", "s3cret"}
Tokens == {"", "tok"}
ProxyHeaders == {"", "s3cret", "wrong"}
AuthHeaders == {"", "Bearer tok", "Bearer bad", "Basic x"}
Creds == [secret : Secrets, token : Tokens, proxy : ProxyHeaders, auth : AuthHeaders]

GoodBody  == [bytes |-> 540, json |-> TRUE, extra |-> FALSE, qlen |-> 512]
EmptyBody == [bytes |-> 0, json |-> FALSE, extra |-> FALSE, qlen |-> -1]
Bodies ==
  { GoodBody, EmptyBody,
    [bytes |-> 4096, json |-> TRUE,  extra |-> TRUE,  qlen |-> 512],
    [bytes |-> 4097, json |-> TRUE,  extra |-> FALSE, qlen |-> 512],
    [bytes |-> 4200, json |-> FALSE, extra |-> FALSE, qlen |-> -1],
    [bytes |-> 541,  json |-> TRUE,  extra |-> FALSE, qlen |-> 513],
    [bytes |-> 60,   json |-> TRUE,  extra |-> TRUE,  qlen |-> 18],
    [bytes |-> 10,   json |-> FALSE, extra |-> FALSE, qlen |-> -1] }

World == [redis |-> redis, mem |-> mem, jobs |-> jobs, okLog |-> okLog,
          nextRun |-> nextRun, resp |-> resp]

EmptyWorld == [redis |-> Empty, mem |-> Empty, jobs |-> Empty, okLog |-> Empty,
               nextRun |-> 1, resp |-> NoResp]

StoreSpecIdle == UNCHANGED <<ideal, lastRes, idealRes, ops, tier, calls, allowedCnt, rpmStarted>>

SetWorld(s, o) ==
  /\ redis' = o.W.redis
  /\ mem' = o.W.mem
  /\ jobs' = o.W.jobs
  /\ okLog' = o.W.okLog
  /\ nextRun' = o.W.nextRun
  /\ resp' = o.W.resp
  /\ reqs' = [reqs EXCEPT ![s] = o.rq]
  /\ UNCHANGED <<now, ticks, redisUp>>
  /\ StoreSpecIdle

\* The auth gate evaluated after the handler's rate check
AuthRejectAfterRate ==
  \E op \in {"create", "poll"}, cred \in Creds, actor \in Actors :
    LET k == IF op = "create" THEN rk_rate_post(actor) ELSE rk_rate_get(actor)
        o == store_incr(World, redisUp, now, k, RPM_BUCKET_S)
    IN  /\ started < MaxRequests
        /\ verify_rapid_auth(cred) # 0
        /\ resp' = [NoResp EXCEPT !.op = op, !.status = verify_rapid_auth(cred),
                                  !.why = "auth", !.secret = cred.secret]
        /\ started' = started + 1
        /\ redis' = o.redis
        /\ mem' = o.mem
        /\ UNCHANGED <<now, ticks, redisUp, reqs, nextRun, jobs, okLog>>
        /\ StoreSpecIdle

\* A request stopped by _verify_rapid_auth, which runs before anything else
AuthReject ==
  \E op \in {"create", "poll"}, cred \in Creds :
    /\ started < MaxRequests
    /\ verify_rapid_auth(cred) # 0
    /\ resp' = [NoResp EXCEPT !.op = op, !.status = verify_rapid_auth(cred),
                              !.why = "auth", !.secret = cred.secret]
    /\ started' = started + 1
    /\ UNCHANGED <<now, ticks, redis, mem, redisUp, reqs, nextRun, jobs, okLog>>
    /\ StoreSpecIdle

\* create_demo_run up to and including its rate check
\* The environments under which some request passes _verify_rapid_auth
PassingSecrets == {cred.secret : cred \in {c \in Creds : verify_rapid_auth(c) = 0}}

\* A request is taken up by the first free slot
FreeSlot(s) == reqs[s].pc = "idle" /\ \A r \in Slots : r < s => reqs[r].pc # "idle"

CreateArrive ==
  \E s \in Slots, secret \in PassingSecrets, actor \in Actors, plan \in Plans,
     body \in Bodies, s3ok \in BOOLEAN :
    /\ started < MaxRequests
    /\ FreeSlot(s)
    /\ started' = started + 1
    /\ SetWorld(s, step(World, NewCreate(actor, plan, body, s3ok, secret, now),
                        now, redisUp))

CreateStep ==
  \E s \in Slots :
    /\ reqs[s].op = "create"
    /\ reqs[s].pc # "idle"
    /\ started' = started
    /\ SetWorld(s, step(World, reqs[s], now, redisUp))

PollTargets == (1..(nextRun - 1)) \cup {UnknownRun}

\* No poll of the same (actor, job) is in flight
OneAtATime(actor, run) ==
  \A s \in Slots : ~(reqs[s].op = "poll" /\ reqs[s].actor = actor /\ reqs[s].run = run)

PollArriveIf(serial) ==
  \E s \in Slots, secret \in PassingSecrets, actor \in Actors, plan \in Plans,
     run \in PollTargets :
    /\ FreeSlot(s)
    /\ serial => OneAtATime(actor, run)
    /\ SetWorld(s, step(World, NewPoll(actor, plan, run, TRUE, secret, now),
                        now, redisUp))

\* get_demo_run up to and including its rate check
PollArrive ==
  /\ started < MaxRequests
  /\ started' = started + 1
  /\ PollArriveIf(FALSE)

PollArriveSerial ==
  /\ started < MaxRequests
  /\ started' = started + 1
  /\ PollArriveIf(TRUE)

\* The clock of the demo endpoints
DemoTick ==
  /\ ticks < MaxDemoTicks
  /\ Advance

PollStep ==
  \E s \in Slots :
    /\ reqs[s].op = "poll"
    /\ reqs[s].pc # "idle"
    /\ started' = started
    /\ SetWorld(s, step(World, reqs[s], now, redisUp))

\* The whole requests of a sequence of [rq, t], one after the other, the
\* i-th at instant t, expired keys dropping out as the clock passes them.
\* Each request is answered before the next one is sent.
RECURSIVE Replay(_, _)
Replay(W, seq) ==
  IF seq = <<>> THEN W
  ELSE LET W1 == [W EXCEPT !.redis = Purge(W.redis, Head(seq).t)]
           W2 == Finish(W1, Head(seq).rq, Head(seq).t, TRUE)
       IN  IF W2.resp.op = Head(seq).rq.op THEN Replay(W2, Tail(seq)) ELSE W

\* Histories the model starts from, each the outcome of whole requests:
\* nothing yet; one BASIC job just created; one created slowly; an actor
\* that has used up both of its rate buckets with requests that create
\* nothing; a BASIC job polled one short of its ceiling, a minimum interval
\* apart, the next poll being due in one tick.
MadeWorld ==
  Finish(EmptyWorld, NewCreate("a1", "BASIC", GoodBody, TRUE, "s3cret", 0), 0, TRUE)

\* A Create whose S3 upload took a second: the record is stored a second
\* after the clock reading that fixed its retention deadline.
SlowMadeWorld ==
  LET a == step(EmptyWorld, NewCreate("a1", "BASIC", GoodBody, TRUE, "s3cret", 0), 0, TRUE)
      b == step(a.W, a.rq, 0, TRUE)
  IN  Finish(b.W, b.rq, Secs(1), TRUE)

BusyWorld ==
  LET posts == [i \in 1..PLAN_LIMITS["BASIC"].post_rpm |->
                  [rq |-> NewCreate("a1", "BASIC", EmptyBody, TRUE, "s3cret", 0), t |-> 0]]
      gets  == [i \in 1..PLAN_LIMITS["BASIC"].get_rpm |->
                  [rq |-> NewPoll("a1", "BASIC", UnknownRun, TRUE, "s3cret", 0), t |-> 0]]
  IN  Replay(EmptyWorld, posts \o gets)

PollGap == Secs(PLAN_LIMITS["BASIC"].poll_min_interval_s)

PolledWorld ==
  Replay(MadeWorld, [i \in 1..(PLAN_LIMITS["BASIC"].poll_max_count - 1) |->
                      [rq |-> NewPoll("a1", "BASIC", 1, TRUE, "s3cret", (i - 1) * PollGap),
                       t |-> (i - 1) * PollGap]])

PolledNow == (PLAN_LIMITS["BASIC"].poll_max_count - 1) * PollGap - 1

Histories ==
  { [W |-> EmptyWorld, t |-> 0],
    [W |-> MadeWorld, t |-> 0],
    [W |-> SlowMadeWorld, t |-> Secs(1)],
    [W |-> BusyWorld, t |-> 0],
    [W |-> [PolledWorld EXCEPT !.redis = Purge(PolledWorld.redis, PolledNow)],
     t |-> PolledNow] }

InitFrom(hs) ==
  /\ \E h \in hs :
       /\ now = h.t
       /\ redis = h.W.redis
       /\ mem = h.W.mem
       /\ jobs = h.W.jobs
       /\ okLog = h.W.okLog
       /\ nextRun = h.W.nextRun
       /\ resp = NoResp
  /\ ticks = 0
  /\ redisUp = TRUE
  /\ ideal = Empty
  /\ lastRes = NotFound
  /\ idealRes = NotFound
  /\ ops = 0
  /\ InitRpmIdle
  /\ reqs = [s \in Slots |-> IdleReq]
  /\ started = 0

Init == InitFrom(Histories)

Next ==
  \/ AuthReject
  \/ CreateArrive
  \/ CreateStep
  \/ PollArrive
  \/ PollStep
  \/ DemoTick

Spec == Init /\ [][Next]_vars

NextSerial ==
  \/ AuthReject
  \/ CreateArrive
  \/ CreateStep
  \/ PollArriveSerial
  \/ PollStep
  \/ DemoTick

SpecSerial == Init /\ [][NextSerial]_vars

----------------------------------------------------------------------------
(* Records put in the store directly, the way the contract tests inject an *)
(* expired run (_store_set of the run's JSON, without TTL), and the way a  *)
(* worker that keeps jobs QUEUED would leave a job and its owner's active  *)
(* counter.                                                                *)

Inject(W, rd, ex) ==
  [With(W, store_set(W, TRUE, rd.created_at, rk_run(rd.run_id), rd, ex))
     EXCEPT !.jobs = Put(W.jobs, rd.run_id, rd), !.nextRun = rd.run_id + 1]

SeedRun(status) ==
  [run_id |-> 1, status |-> status, plan |-> "BASIC", created_at |-> 0,
   owner_key |-> "a1", actor_key |-> "a1",
   retention_until |-> Secs(PLAN_LIMITS["BASIC"].retention_days * 24 * 3600),
   result |-> {}]

ExpiredWorld == Inject(EmptyWorld, SeedRun("COMPLETED"), 0)

QueuedWorld ==
  LET W == Inject(EmptyWorld, SeedRun("QUEUED"),
                  PLAN_LIMITS["BASIC"].retention_days * 24 * 3600)
  IN  With(W, store_incr(W, TRUE, 0, rk_active("a1"), 0))

\* A job that a worker picked up and never finished
StalledWorld ==
  LET W == Inject(EmptyWorld, SeedRun("PROCESSING"),
                  PLAN_LIMITS["BASIC"].retention_days * 24 * 3600)
  IN  With(W, store_incr(W, TRUE, 0, rk_active("a1"), 0))

SeededHistories ==
  Histories \cup
  { [W |-> ExpiredWorld, t |-> SeedRun("COMPLETED").retention_until + Secs(1)],
    [W |-> QueuedWorld, t |-> 0],
    [W |-> StalledWorld, t |-> 0] }

InitSeeded == InitFrom(SeededHistories)

SpecSeeded == InitSeeded /\ [][Next]_vars

----------------------------------------------------------------------------
(* Properties of the demo endpoints *)

JobOf(r) == jobs[r.run]

LastOk(actor, run) == okLog[<<actor, run>>][Len(okLog[<<actor, run>>])]

\* C3: a poll that passed auth and the GET rate check, of a job whose
\* retention deadline had passed when the poll came in and whose tombstone
\* period is not over, is answered 410 to the job's owner and 404 to anyone
\* else.
C3_ExpiredGoneOrNotFound ==
  ( /\ resp.op = "poll"
    /\ resp.why \notin {"auth", "rate"}
    /\ resp.late
    /\ now < JobOf(resp).retention_until + Secs(TOMBSTONE_TTL_S) )
  => resp.status = IF resp.actor = JobOf(resp).owner_key THEN 410 ELSE 404

\* C4: a Create or Poll handled while RAPIDAPI_PROXY_SECRET is unset, empty
\* or blank is answered 503, whatever else the request carries.
C4_FailClosed ==
  (resp.op # "none" /\ Strip(resp.secret) = "") => resp.status = 503

C4_Witness ==
  /\ resp.op = "poll"
  /\ resp.secret = " "
  /\ resp.status = 503
  /\ DOMAIN jobs # {}

\* C5: an accepted poll of an (actor, job) is never closer to an earlier
\* accepted poll of that (actor, job) than the minimum interval of the
\* polls' plan (the shorter one when the two polls name different plans).
C5_AcceptedPollsApart ==
  \A k \in DOMAIN okLog :
    LET n == Len(okLog[k])
    IN  \A i \in 1..(n - 1) :
          okLog[k][n].t - okLog[k][i].t
            >= Secs(Min(PLAN_LIMITS[okLog[k][i].plan].poll_min_interval_s,
                        PLAN_LIMITS[okLog[k][n].plan].poll_min_interval_s))

\* C6: the accepted polls of one (actor, job) never outnumber the plan's
\* poll_max_count (the largest one among the plans its polls name).
C6_AcceptedWithinCeiling ==
  \A k \in DOMAIN okLog :
    \E i \in 1..Len(okLog[k]) :
      Len(okLog[k]) <= PLAN_LIMITS[okLog[k][i].plan].poll_max_count

NonTerminal(actor) ==
  {k \in DOMAIN redis : /\ k[1] = "run"
                        /\ redis[k].val.owner_key = actor
                        /\ redis[k].val.status \in {"QUEUED", "PROCESSING"}}

Count(r, k) == IF k \in DOMAIN r THEN r[k].val ELSE 0

BucketOf(r) == IF r.op = "create" THEN rk_rate_post(r.actor) ELSE rk_rate_get(r.actor)

\* A step in which a request arrives and is answered at once by the rate check
RateRejected ==
  /\ started' = started + 1
  /\ reqs' = reqs
  /\ resp'.why = "rate"

\* C11: a request rejected by the demo rate check leaves its bucket counter
\* at the value it had before the request.
C11_RejectedLeavesBucket ==
  [][RateRejected => Count(redis', BucketOf(resp')) = Count(redis, BucketOf(resp'))]_vars

NonTerminalStatus == {"QUEUED", "PROCESSING"}

\* The stored record of the run that slot s is polling
Stored(s) == redis[rk_run(reqs[s].run)].val

\* C12: a poll whose zombie check meets a non-terminal job older than the
\* zombie timeout of the job's plan goes on to release the job: the owner's
\* active counter becomes max(0, counter - 1) and the record is persisted
\* with status TIMEOUT; a poll that meets a terminal job, or one not older
\* than the timeout, leaves the store as it is.
C12_ZombieReleased ==
  [][\A s \in Slots :
       /\ ( /\ reqs[s].pc = "load"
            /\ reqs'[s].pc \in {"zombie_decr", "last_get"} )
          => /\ reqs'[s].pc = "zombie_decr"
                  <=> /\ Stored(s).status \in NonTerminalStatus
                      /\ now - Stored(s).created_at
                           > Secs(PLAN_LIMITS[Stored(s).plan].zombie_timeout_s)
             /\ redis' = redis
       /\ (reqs[s].pc = "zombie_decr" /\ reqs'[s].pc = "zombie_set")
          => Count(redis', rk_active(reqs[s].rd.owner_key))
               = Max(0, Count(redis, rk_active(reqs[s].rd.owner_key)) - 1)
       /\ (reqs[s].pc = "zombie_set" /\ reqs'[s].pc # "zombie_set")
          => /\ rk_run(reqs[s].run) \in DOMAIN redis'
             /\ redis'[rk_run(reqs[s].run)].val
                  = [redis[rk_run(reqs[s].run)].val EXCEPT !.status = "TIMEOUT"]
    ]_vars

Rank(status) == IF status = "QUEUED" THEN 0 ELSE IF status = "PROCESSING" THEN 1 ELSE 2

\* C13: the persisted status of a job never leaves COMPLETED or TIMEOUT and
\* never moves back towards QUEUED.
C13_StatusForwardOnly ==
  [][\A k \in DOMAIN redis \cap DOMAIN redis' :
       k[1] = "run" =>
         /\ redis[k].val.status \in {"COMPLETED", "TIMEOUT"}
              => redis'[k].val.status = redis[k].val.status
         /\ Rank(redis'[k].val.status) >= Rank(redis[k].val.status)
    ]_vars

\* a stalled job forced to TIMEOUT, and a finished job polled
C13_Witness ==
  /\ resp.op = "poll"
  /\ resp.status = 200
  /\ resp.runStatus = "TIMEOUT"
  /\ JobOf(resp).status = "PROCESSING"
  /\ redis[rk_run(resp.run)].val.status = "TIMEOUT"

RunKeys(r) == {k \in DOMAIN r : k[1] = "run"}

\* C14: a stored job record carries the retention deadline fixed at its
\* creation, and expires from the store no later than that deadline.
C14_RetentionNotExtended ==
  \A k \in RunKeys(redis) :
    /\ redis[k].val.retention_until = jobs[k[2]].retention_until
    /\ redis[k].val.retention_until
         = redis[k].val.created_at
             + Secs(PLAN_LIMITS[redis[k].val.plan].retention_days * 24 * 3600)
    /\ redis[k].ex # NoExpiry
    /\ redis[k].ex <= redis[k].val.retention_until

\* Slot s takes a step
Steps(s) == reqs'[s] # reqs[s]

\* C15: a poll that comes in after a job's retention deadline is never
\* answered 200 nor given the job's status; when such a poll finds the
\* record it stores a tombstone and deletes the record, and once a run has
\* its tombstone and no record, the record never comes back.
C15_ExpiredBecomesTombstone ==
  [][/\ (resp'.op = "poll" /\ resp'.late /\ resp'.why # "auth")
          => (resp'.status # 200 /\ resp'.runStatus = "NONE")
     /\ \A s \in Slots :
          /\ ( /\ Steps(s)
               /\ reqs[s].pc = "load"
               /\ rk_run(reqs[s].run) \in DOMAIN redis
               /\ now > Stored(s).retention_until )
             => reqs'[s].pc = "tomb_set"
          /\ (Steps(s) /\ reqs[s].pc = "run_del")
             => /\ rk_tombstone(reqs[s].run) \in DOMAIN redis'
                /\ rk_run(reqs[s].run) \notin DOMAIN redis'
                /\ resp'.status = IF reqs[s].actor = reqs[s].rd.owner_key THEN 410 ELSE 404
     /\ \A r \in DOMAIN jobs :
          (rk_tombstone(r) \in DOMAIN redis /\ rk_run(r) \notin DOMAIN redis)
             => rk_run(r) \notin DOMAIN redis'
    ]_vars

\* a job made by Create, polled after its deadline, now a tombstone
C15_Witness ==
  /\ resp.op = "poll"
  /\ resp.late
  /\ resp.why = "expired"
  /\ resp.status = 410
  /\ rk_tombstone(resp.run) \in DOMAIN redis
  /\ rk_run(resp.run) \notin DOMAIN redis

\* The checks of get_demo_run in the order of the code; the expired branch
\* and the poll limits are alternatives after the load.
PollOrder ==
  <<"idle", "tomb", "load", "tomb_set", "run_del",
    "zombie_decr", "zombie_set", "last_get", "count_get", "last_set", "count_incr">>

Pos(pc) == CHOOSE i \in 1..Len(PollOrder) : PollOrder[i] = pc

\* What a poll answers when it stops at a given check
Answer(pc) ==
  CASE pc = "idle"       -> [why |-> {"rate"},      status |-> {429}]
    [] pc = "tomb"       -> [why |-> {"tombstone"}, status |-> {410, 404}]
    [] pc = "load"       -> [why |-> {"missing"},   status |-> {404}]
    [] pc = "run_del"    -> [why |-> {"expired"},   status |-> {410, 404}]
    [] pc = "last_get"   -> [why |-> {"cadence"},   status |-> {429}]
    [] pc = "count_get"  -> [why |-> {"count"},     status |-> {429}]
    [] pc = "count_incr" -> [why |-> {"ok"},        status |-> {200}]
    [] OTHER             -> [why |-> {},            status |-> {}]

\* Slot s takes a step of a poll (its arrival included)
PollSteps(s) == Steps(s) /\ (reqs[s].op = "poll" \/ reqs'[s].op = "poll")

Made == calls'[1]

Checked(name) == calls' # calls /\ Made.check = name

\* C18: an enforcement check whose own limit field is zero allows, whatever
\* the counter or the usage, and issues no command to the store; a check
\* whose own limit field is not zero decides by its own rule, whichever of
\* the other two limit fields are zero.
C18_ZeroDisablesOwnCheck ==
  [][/\ Checked("rpm") =>
          IF tier.limit = 0
            THEN Made.res = "allowed" /\ Made.cmds = 0 /\ redis' = redis
            ELSE Made.res = "violation"
                   <=> Count(redis, rpm_key("w1", now_window(now, tier.window))) + 1
                         > tier.limit
     /\ Checked("quota") =>
          IF tier.monthly_quota_dc = 0
            THEN Made.res = "allowed" /\ Made.cmds = 0 /\ redis' = redis
            ELSE Made.res = "violation"
                   <=> current_usage(redis, "w1") >= tier.monthly_quota_dc
     /\ Checked("hardcap") =>
          IF tier.hard_overage_dc_cap = 0
            THEN Made.res = "allowed" /\ Made.cmds = 0 /\ redis' = redis
            ELSE Made.res = "violation"
                   <=> current_usage(redis, "w1") >=
                         tier.monthly_quota_dc + tier.hard_overage_dc_cap
                           + calculate_grace_overage(tier.grace,
                               tier.monthly_quota_dc + tier.hard_overage_dc_cap)
    ]_vars

\* the hard overage cap rejects under an unlimited monthly quota
C18_Witness ==
  /\ calls[1].check = "hardcap"
  /\ calls[1].res = "violation"
  /\ tier.monthly_quota_dc = 0
  /\ tier.limit = 0
  /\ tier.hard_overage_dc_cap # 0

\* min(percentage x cap, absolute grace cap) in whole DC, the cap being the
\* monthly quota plus the hard overage cap
exact_grace(grace, cap) ==
  IF grace.enabled THEN Min((grace.max_grace_percent * cap) \div 100, grace.max_grace_dc)
  ELSE 0

\* C19: check_hard_overage_cap returns a violation exactly when usage >=
\* monthly quota + hard overage cap + grace, with grace = min(percentage x
\* cap, absolute grace cap) when grace overage is enabled and 0 when not.
C19_EffectiveCapExact ==
  (calls[1].check = "hardcap" /\ tier.hard_overage_dc_cap # 0) =>
    (calls[1].res = "violation"
       <=> current_usage(redis, "w1") >=
             tier.monthly_quota_dc + tier.hard_overage_dc_cap
               + exact_grace(tier.grace, tier.monthly_quota_dc + tier.hard_overage_dc_cap))

\* check_rpm_limit called by one caller after the other: a call starts when
\* no other call is in flight; the clock runs freely.
RpmStartSolo ==
  /\ AllCallsFinished
  /\ RpmStart

NextRpmSolo ==
  \/ RpmStartSolo
  \/ RpmIncr
  \/ RpmExpire
  \/ RpmDecr
  \/ RpmTtl
  \/ Tick

SpecRpmSolo == InitRpm /\ [][NextRpmSolo]_vars

\* Call p returns a violation in this step
Rejects(p) == calls[p].pc = "ttl" /\ calls'[p].res = "violation"

\* C20: when check_rpm_limit rejects a request and no other call interleaves,
\* the counter is left at the value it had before the call (0 if its key
\* has expired meanwhile), and the violation reports the configured limit,
\* that pre-rejection count as current, and the tier's window length.
C20_RejectionRestoresCounter ==
  [][\A p \in RpmProcs :
       /\ (calls[p].pc = "incr" /\ calls'[p].pc \in {"expire", "decr"}
             /\ calls'[p].newCount > tier.limit)
            => calls'[p].newCount - 1 = Count(redis, CallKey(p))
       /\ (calls[p].pc = "decr" /\ calls'[p].pc = "ttl") =>
            Count(redis', CallKey(p)) =
              IF CallKey(p) \in DOMAIN redis THEN calls[p].newCount - 1 ELSE 0
       /\ Rejects(p) =>
            /\ calls'[p].current = calls[p].newCount - 1
            /\ calls'[p].limit = tier.limit
            /\ calls'[p].window_seconds = tier.window
    ]_vars

\* C21: every violation that check_rpm_limit returns carries a retry hint
\* equal to max(1, TTL of the counter key), hence >= 1 whatever TTL the
\* store reports.
C21_ViolationCarriesRetryHint ==
  [][\A p \in RpmProcs :
       Rejects(p) =>
         /\ calls'[p].hints = {Max(1, redis_ttl_cmd(redis, now, CallKey(p)))}
         /\ \A h \in calls'[p].hints : h >= 1
    ]_vars

\* The local retry_after of a rejected call is max(1, TTL) and >= 1
C21_LocalRetryAfter ==
  [][\A p \in RpmProcs :
       Rejects(p) =>
         /\ calls'[p].retry = Max(1, redis_ttl_cmd(redis, now, CallKey(p)))
         /\ calls'[p].retry >= 1
    ]_vars

\* The storage abstraction used as a counter: increments and decrements only
NextCounter ==
  \/ StoreIncr
  \/ StoreDecr
  \/ Outage
  \/ Recover
  \/ Tick

SpecCounter == InitStore /\ [][NextCounter]_vars

\* This step is a call of the storage abstraction
StoreCall == ops' = ops + 1

\* The live entry of key k in the store that serves the next call
ServingHas(k) ==
  IF redisUp THEN k \in DOMAIN redis
  ELSE k \in DOMAIN mem /\ ~MemExpired(mem[k], now)

ServingEx(r, m, k) == IF redisUp THEN r[k].ex ELSE m[k].ex

\* C22: in a sequence of increments and decrements on a key, only the
\* increment that creates the key sets its expiry (to the TTL it was given,
\* counted from that instant); calls on an existing key leave the expiry as
\* it is, on the shared store and on the in-process fallback.
C22_TtlSetOnCreationOnly ==
  [][\A k \in StoreKeys :
       StoreCall =>
         IF ServingHas(k)
           THEN ServingEx(redis', mem', k) = ServingEx(redis, mem, k)
           ELSE (redisUp \/ ~MemExpired(mem'[k], now)) =>
                  ServingEx(redis', mem', k) \in {ExpireAt(now, ex) : ex \in StoreTTLs}
    ]_vars

\* The value of key k in the store that serves the next call (0: none)
ServingVal(r, m, k) ==
  IF redisUp THEN Count(r, k)
  ELSE IF k \in DOMAIN m /\ ~MemExpired(m[k], now) THEN m[k].val ELSE 0

\* C23: decrement has a floor of 0: every stored counter is >= 0 after any
\* sequence of increments and decrements, a decrement stores and returns
\* max(0, previous - 1) and an increment stores and returns previous + 1
\* (so an increment after a decrement of an empty counter returns 1), on
\* the shared store and on the in-process fallback.
C23_DecrementFloorZero ==
  [][\A k \in StoreKeys :
       StoreCall =>
         LET prev == ServingVal(redis, mem, k)
             new == ServingVal(redis', mem', k)
         IN  /\ new >= 0
             /\ lastRes'.val = new
             /\ new \in {prev + 1, Max(0, prev - 1)}
    ]_vars

\* This step is a call of the header generator
HeaderCall == ops' = ops + 1

PolicyStatus == {"RateLimit-Policy", "RateLimit"}

\* C24: generate_rpm_headers and generate_monthly_dc_headers only read: a
\* call changes no counter value and no TTL, and the policy and status
\* headers it returns are those it returns for the same counters whether or
\* not the request was denied (Retry-After asked for).
C24_HeadersOnlyRead ==
  [][HeaderCall =>
       /\ redis' = redis
       /\ \A inc \in BOOLEAN :
            LET h == generate_rpm_headers(redis, now, "w1", tier, inc).headers
                h0 == generate_rpm_headers(redis, now, "w1", tier, FALSE).headers
            IN  /\ DOMAIN h0 \subseteq PolicyStatus
                /\ DOMAIN h \cap PolicyStatus = DOMAIN h0
                /\ \A n \in DOMAIN h0 : h[n] = h0[n]
       /\ lastRes'.of = "rpm" =>
            \A n \in DOMAIN lastRes'.headers \cap PolicyStatus :
              lastRes'.headers[n] =
                generate_rpm_headers(redis, now, "w1", tier, FALSE).headers[n]
    ]_vars

\* headers asked for a request that check_rpm_limit has just denied
C24_Witness ==
  /\ calls[1].check = "rpm"
  /\ calls[1].res = "violation"
  /\ lastRes.of = "rpm"
  /\ lastRes.include_retry_after
  /\ "RateLimit" \in DOMAIN lastRes.headers
  /\ lastRes.headers["RateLimit"][2] = 0

\* C25: the Retry-After that generate_rpm_headers emits for a blocked request
\* is a number of seconds >= 1, whatever TTL the store reports for the key.
C25_RetryAfterPositive ==
  (lastRes.of = "rpm" /\ "Retry-After" \in DOMAIN lastRes.headers)
    => lastRes.headers["Retry-After"][1] >= 1

----------------------------------------------------------------------------
(* How a response of the demo endpoints is rendered. resp.status is the    *)
(* status of the response the handler builds; a rejection other than an    *)
(* auth failure is built by one of _p401 ... _p410, which all go through   *)
(* create_problem_details_response.                                        *)

ProblemFields == {"type", "title", "status", "detail", "instance"}

\* def create_problem_details_response(problem, headers=None)
ProblemResponseParams == [all |-> {"problem", "headers"}, required |-> {"problem"}]

\* Python's binding of keyword arguments to a signature
Binds(params, kwargs) == kwargs \subseteq params.all /\ params.required \subseteq kwargs

\* The keyword arguments of the call in _p413, _p422, _p404, _p410, and in
\* _p429, which adds headers
ProblemKwargs(status) ==
  {"type_uri", "title", "status", "detail", "instance"}
    \cup (IF status = 429 THEN {"headers"} ELSE {})

\* An exception that leaves the handler: the framework answers 500
ServerError == [http |-> 500, ctype |-> "text/plain", fields |-> {}, body_status |-> 0]

ProblemJson(status) ==
  [http |-> status, ctype |-> "application/problem+json", fields |-> ProblemFields,
   body_status |-> status]

\* create_problem_details_response as called with the keyword arguments kwargs
create_problem_details_response(kwargs, status) ==
  IF Binds(ProblemResponseParams, kwargs) THEN ProblemJson(status) ELSE ServerError

\* raise HTTPException(status_code=...) in _verify_rapid_auth, rendered by the
\* application's exception handler
http_exception_response(status) == ProblemJson(status)

\* JSONResponse(status_code=..., content=...)
json_response(status) ==
  [http |-> status, ctype |-> "application/json", fields |-> {}, body_status |-> 0]

Rendered(r) ==
  IF r.why = "auth" THEN http_exception_response(r.status)
  ELSE IF r.status \in {200, 202} THEN json_response(r.status)
  ELSE create_problem_details_response(ProblemKwargs(r.status), r.status)

\* C29: every non-success outcome of Create and Poll is rendered as a Problem
\* Details body with the fields type, title, status, detail and instance,
\* content type application/problem+json, and a body status equal to the
\* HTTP status; no rejection produces another kind of response.
C29_RejectionsAreProblemDetails ==
  (resp.op # "none" /\ resp.status \notin {200, 202}) =>
    /\ Rendered(resp).http = resp.status
    /\ Rendered(resp).ctype = "application/problem+json"
    /\ ProblemFields \subseteq Rendered(resp).fields
    /\ Rendered(resp).body_status = Rendered(resp).http

\* _p404's and _p410's default detail; get_demo_run passes no other
p404_detail == "Run not found."

p410_detail == "Run has expired and its data has been purged."

\* The detail get_demo_run's 404 and 410 call sites hand to the helper
Detail(r) ==
  IF r.status = 404 THEN p404_detail
  ELSE IF r.status = 410 THEN p410_detail
  ELSE "other"

\* What the caller sees of a response (the instance URI is a random UUID)
Shown(r) ==
  [status |-> r.status, detail |-> Detail(r), retry |-> r.retry,
   runStatus |-> r.runStatus, rendered |-> Rendered(r)]

NonOwnerOfExpired(r) ==
  /\ r.run # UnknownRun
  /\ r.late
  /\ JobOf(r).owner_key # r.actor

-----------------------------------------------------------------------------
(* The demo endpoints with the object store in each of its conditions, for  *)
(* the upload of Create and for the presign of Poll, starting with no job.  *)

CreateArriveS3 ==
  \E s \in Slots, actor \in Actors, plan \in Plans, env \in S3Envs :
    /\ started < MaxRequests
    /\ FreeSlot(s)
    /\ started' = started + 1
    /\ SetWorld(s, step(World, [NewCreate(actor, plan, GoodBody, TRUE, "s3cret", now)
                                  EXCEPT !.s3 = env],
                        now, redisUp))

PollArriveS3 ==
  \E s \in Slots, actor \in Actors, plan \in Plans, run \in PollTargets, env \in S3Envs :
    /\ started < MaxRequests
    /\ FreeSlot(s)
    /\ started' = started + 1
    /\ SetWorld(s, step(World, [NewPoll(actor, plan, run, TRUE, "s3cret", now)
                                  EXCEPT !.s3 = env],
                        now, redisUp))

InitResult == InitFrom({[W |-> EmptyWorld, t |-> 0], [W |-> MadeWorld, t |-> 0]})

NextResult ==
  \/ CreateArriveS3
  \/ CreateStep
  \/ PollArriveS3
  \/ PollStep
  \/ DemoTick

SpecResult == InitResult /\ [][NextResult]_vars

\* The job records in the store
RunRecords ==
  {redis[k].val : k \in {rk_run(r) : r \in 1..(nextRun - 1)} \cap DOMAIN redis}
    \cup {mem[k].val : k \in {rk_run(r) : r \in 1..(nextRun - 1)} \cap DOMAIN mem}

External(rd) == {"result_bucket", "result_key"} \subseteq rd.result

\* C27: a Create that passed its checks is answered 202 whatever the object
\* store does; every job record in the store holds either the pointer
\* (bucket and key) or the inline payload, never both and never neither; a
\* 200 poll of a COMPLETED job carries result_inline, and carries no
\* result_download when the presign did not succeed.
C27_ObjectStoreFailureHidden ==
  /\ (resp.op = "create" /\ resp.why \in {"created", "s3"}) => resp.status = 202
  /\ resp.status # 500
  /\ \A rd \in RunRecords :
       /\ rd.result \in {{"result_bucket", "result_key"}, {"result_inline_json"}}
  /\ (resp.op = "poll" /\ resp.status = 200 /\ resp.runStatus = "COMPLETED") =>
       /\ "result_inline" \in resp.content
       /\ resp.s3 # "ok" => "result_download" \notin resp.content

C27_Witness ==
  /\ resp.op = "poll"
  /\ resp.status = 200
  /\ resp.runStatus = "COMPLETED"
  /\ resp.s3 = "call_fails"
  /\ External(JobOf(resp))
  /\ \E rd \in RunRecords : rd.result = {"result_inline_json"}

\* result_download's fields that come from the presign call
PresignFields == {"presigned_url", "expires_at"}

\* C28: no job record in the store has a presigned URL or its expiry among
\* its fields; an externally stored job keeps only bucket and key; and a 200
\* poll of a COMPLETED job stored externally carries result_download exactly
\* when the presign call made for that poll succeeds.
C28_PresignNeverStored ==
  /\ \A rd \in RunRecords :
       /\ run_data_keys(rd) \cap (PresignFields \cup {"result_download"}) = {}
       /\ External(rd) => rd.result = {"result_bucket", "result_key"}
  /\ ( /\ resp.op = "poll"
       /\ resp.status = 200
       /\ resp.runStatus = "COMPLETED"
       /\ External(JobOf(resp)) )
     => ("result_download" \in resp.content <=> resp.s3 = "ok")

C28_Witness ==
  /\ resp.op = "poll"
  /\ resp.status = 200
  /\ resp.runStatus = "COMPLETED"
  /\ External(JobOf(resp))
  /\ Len(okLog[<<resp.actor, resp.run>>]) >= 2
  /\ resp.s3 = "ok"
  /\ "result_download" \in resp.content
  /\ rk_run(resp.run) \in DOMAIN redis

\* The accepted polls of (actor, run)
Accepted(actor, run) ==
  IF <<actor, run>> \in DOMAIN okLog THEN okLog[<<actor, run>>] ELSE <<>>

\* What store m holds of (actor, run)'s poll tracking comes from accepted polls
TrackedFromAccepted(m, actor, run) ==
  /\ rk_poll_last(actor, run) \in DOMAIN m =>
       \E i \in 1..Len(Accepted(actor, run)) :
         m[rk_poll_last(actor, run)].val = Accepted(actor, run)[i].t
  /\ rk_poll_count(actor, run) \in DOMAIN m =>
       m[rk_poll_count(actor, run)].val <= Len(Accepted(actor, run))

\* C30: whenever no poll of an (actor, job) is being handled, its last-poll
\* timestamp is the instant of one of its accepted polls and its poll counter
\* does not exceed the number of its accepted polls: polls answered 429, 404
\* or 410 have left both as they were.
C30_TrackingOnlyFromAccepted ==
  \A actor \in Actors, run \in PollTargets :
    OneAtATime(actor, run) =>
      /\ TrackedFromAccepted(redis, actor, run)
      /\ TrackedFromAccepted(mem, actor, run)

C30_Witness ==
  /\ resp.op = "poll"
  /\ resp.status = 429
  /\ resp.why = "cadence"
  /\ OneAtATime(resp.actor, resp.run)
  /\ rk_poll_last(resp.actor, resp.run) \in DOMAIN redis
  /\ redis[rk_poll_last(resp.actor, resp.run)].val < now
  /\ redis[rk_poll_count(resp.actor, resp.run)].val = Len(Accepted(resp.actor, resp.run))

-----------------------------------------------------------------------------
(* The demo rate buckets by themselves: requests that stop at or right      *)
(* after their rate check (a Create with an empty body, a Poll of an        *)
(* unknown run), one at a time, on one store (Redis, or the in-process map  *)
(* for the whole run). calls[k] logs, for bucket k, every _check_rpm call:  *)
(* its instant, the count _store_incr returned and the limit compared.      *)

MaxBucketCalls == 8

\* One actor is enough: a bucket key is read and written only by requests
\* of its own actor and method
BucketActors == {"a1"}

BucketKeys ==
  {rk_rate_post(a) : a \in BucketActors} \cup {rk_rate_get(a) : a \in BucketActors}

BucketRequest(actor, op) ==
  IF op = "create" THEN NewCreate(actor, "BASIC", EmptyBody, TRUE, "s3cret", now)
  ELSE NewPoll(actor, "BASIC", UnknownRun, TRUE, "s3cret", now)

BucketLimit(op) ==
  IF op = "create" THEN PLAN_LIMITS["BASIC"].post_rpm ELSE PLAN_LIMITS["BASIC"].get_rpm

BucketCall(actor, op) ==
  LET rq == BucketRequest(actor, op)
      k == BucketOf(rq)
      W == Finish(World, rq, now, redisUp)
      count == IF redisUp THEN W.redis[k].val ELSE W.mem[k].val
  IN  /\ started' = started + 1
      /\ redis' = W.redis
      /\ mem' = W.mem
      /\ resp' = W.resp
      /\ calls' = [calls EXCEPT ![k] = Append(@, [t |-> now, count |-> count,
                                                  limit |-> BucketLimit(op)])]
      /\ UNCHANGED <<now, ticks, redisUp, ideal, lastRes, idealRes, ops, tier, allowedCnt,
                     rpmStarted, reqs, nextRun, jobs, okLog>>

BucketCreate ==
  /\ started < MaxBucketCalls
  /\ \E actor \in BucketActors : BucketCall(actor, "create")

BucketPoll ==
  /\ started < MaxBucketCalls
  /\ \E actor \in BucketActors : BucketCall(actor, "poll")

BucketTick ==
  /\ ticks < MaxTicks
  /\ \E t \in TickTargets :
       /\ now' = t
       /\ redis' = Purge(redis, t)
  /\ ticks' = ticks + 1
  /\ UNCHANGED <<mem, redisUp, ideal, lastRes, idealRes, ops, tier, calls, allowedCnt,
                 rpmStarted>>
  /\ DemoIdle

InitBucket ==
  /\ now = 0
  /\ ticks = 0
  /\ redis = Empty
  /\ mem = Empty
  /\ redisUp \in BOOLEAN
  /\ ideal = Empty
  /\ lastRes = NotFound
  /\ idealRes = NotFound
  /\ ops = 0
  /\ tier = [limit |-> 0, window |-> 1]
  /\ calls = [k \in BucketKeys |-> <<>>]
  /\ allowedCnt = Empty
  /\ rpmStarted = 0
  /\ InitDemoIdle

NextBucket == BucketCreate \/ BucketPoll \/ BucketTick

SpecBucket == InitBucket /\ [][NextBucket]_vars

\* _check_rpm returned None
Passed(e) == e.count <= e.limit

\* The calls of log that passed, from the i-th on, less than 60 s after it
PassedWithin(log, i) ==
  {j \in i..Len(log) : Passed(log[j]) /\ log[j].t - log[i].t < Secs(RPM_BUCKET_S)}

\* C31: of the requests of one actor and one method, at most post_rpm
\* (Create) or get_rpm (Poll) pass the rate check in any interval of 60
\* seconds.
C31_SlidingWindow ==
  \A k \in BucketKeys :
    \A i \in 1..Len(calls[k]) :
      Cardinality(PassedWithin(calls[k], i)) <= calls[k][i].limit

\* The call that started the bucket the i-th call of log counted in: the
\* latest call up to the i-th for which _store_incr returned 1
BucketStart(log, i) ==
  CHOOSE j \in 1..i :
    /\ log[j].count = 1
    /\ \A h \in (j + 1)..i : log[h].count # 1

\* C32: a request rejected by the demo rate check falls within 60 seconds of
\* the first request of its bucket (the in-process map still counts a
\* request arriving at exactly 60 seconds into the old bucket): a request
\* that comes later passes, whatever was sent and rejected in between.
C32_AdmittedAfterWindow ==
  \A k \in BucketKeys :
    \A i \in 1..Len(calls[k]) :
      ~Passed(calls[k][i]) =>
        LET age == calls[k][i].t - calls[k][BucketStart(calls[k], i)].t
        IN  IF redisUp THEN age < Secs(RPM_BUCKET_S) ELSE age <= Secs(RPM_BUCKET_S)

\* A request passes with a fresh bucket after requests of the earlier bucket
\* were rejected at a later instant than the bucket's first request
C32_Witness ==
  \E k \in BucketKeys :
    LET log == calls[k]
        n == Len(log)
    IN  /\ n >= 3
        /\ redisUp
        /\ log[n].count = 1
        /\ ~Passed(log[n - 1])
        /\ log[n - 1].t > log[BucketStart(log, n - 1)].t
        /\ log[n].t = log[BucketStart(log, n - 1)].t + Secs(RPM_BUCKET_S)

\* Slot s makes _maybe_enforce_zombie's _store_decr in this step
ZombieDecr(s) == reqs[s].pc = "zombie_decr" /\ reqs'[s].pc = "zombie_set"

\* The slot of job run has been released already: a poll has decremented
\* and is about to persist TIMEOUT, or TIMEOUT is persisted
ReleasedAlready(s, run) ==
  \/ \E s2 \in Slots \ {s} : reqs[s2].pc = "zombie_set" /\ reqs[s2].run = run
  \/ rk_run(run) \in DOMAIN redis /\ redis[rk_run(run)].val.status = zombie_status

\* C33: the owner's active counter is decremented once per zombie job: no
\* poll decrements it for a job for which another poll already has.
C33_ReleasedOnce ==
  [][\A s \in Slots : ZombieDecr(s) => ~ReleasedAlready(s, reqs[s].run)]_vars

\* C34: a poll answered 200 was sent by the owner of the job it names.
C34_OnlyOwnerReads ==
  (resp.op = "poll" /\ resp.status = 200) => resp.actor = JobOf(resp).owner_key

\* C35: with the polls of one (actor, job) handled one at a time, its
\* accepted polls are at least the minimum interval of the job's own plan
\* apart and do not outnumber that plan's poll_max_count, whatever plan the
\* polls name.
C35_LimitsOfJobPlan ==
  \A k \in DOMAIN okLog :
    LET n == Len(okLog[k])
        lim == PLAN_LIMITS[jobs[k[2]].plan]
    IN  /\ \A i \in 1..(n - 1) :
             okLog[k][n].t - okLog[k][i].t >= Secs(lim.poll_min_interval_s)
        /\ n <= lim.poll_max_count

ActiveKeys == {rk_active(a) : a \in Actors}

\* C36: no active-job counter is ever above 0, in Redis or in the
\* in-process map, and no Create is answered by the concurrency cap.
C36_ActiveNeverPositive ==
  /\ \A k \in ActiveKeys : Count(redis, k) <= 0 /\ Count(mem, k) <= 0
  /\ resp.why # "concurrency"

\* A Create accepted for an actor whose plan allows one active job and who
\* already has a job
C36_Witness ==
  /\ resp.op = "create"
  /\ resp.status = 202
  /\ resp.plan = "BASIC"
  /\ \E r \in DOMAIN jobs : r # resp.run /\ jobs[r].owner_key = resp.actor
  /\ rk_active(resp.actor) \notin DOMAIN redis

\* A step in which a request arrives and is stopped by the auth gate
AuthRejected ==
  /\ started' = started + 1
  /\ reqs' = reqs
  /\ resp'.why = "auth"

\* C37: a request answered 503 or 401 by the auth gate leaves the shared
\* store and the in-process map exactly as they were.
C37_AuthRejectTouchesNothing ==
  [][AuthRejected => (resp'.status \in {401, 503} /\ redis' = redis /\ mem' = mem)]_vars

C37_Witness ==
  /\ resp.why = "auth"
  /\ resp.status = 401
  /\ \E a \in Actors : rk_rate_post(a) \in DOMAIN redis /\ rk_rate_get(a) \in DOMAIN redis
  /\ \E r \in DOMAIN jobs : rk_run(r) \in DOMAIN redis

\* A call has just created key k with its INCR and is about to issue EXPIRE
BeingCreated(k) ==
  \E p \in RpmProcs : calls[p].pc = "expire" /\ calls[p].newCount = 1 /\ CallKey(p) = k

\* C38: every RPM counter key in the store, once the call that created it
\* has issued its EXPIRE, has an expiry, no later than one window from now.
C38_CounterKeysExpire ==
  \A k \in RpmKeys :
    ~BeingCreated(k) =>
      /\ redis[k].ex # NoExpiry
      /\ redis[k].ex <= now + Secs(tier.window)

-----------------------------------------------------------------------------
(* The SES feedback worker (worker_ses_feedback/worker.py). In this         *)
(* specification jobs is the SQS queue (message -> body, visibility, number *)
(* of deliveries), okLog the ses_feedback_events table (message -> rows     *)
(* committed), reqs the worker (its position, the batch it received and     *)
(* what the attempt on the batch's first message has done so far), started  *)
(* the number of receive_message calls. The environment decides what a      *)
(* receive returns, whether the database and the delete call raise, and     *)
(* when a visibility timeout runs out.                                      *)

MaxReceives == 3

Msgs == {1, 2}

\* A known SES notification; a body _parse_ses_notification returns None
\* for (not JSON, unknown notificationType); JSON that is not an object,
\* on which it raises
SesBodies == {"ses", "unknown", "not_object"}

\* _parse_ses_notification
parse_ses_notification(body) ==
  IF body = "ses" THEN "parsed"
  ELSE IF body = "unknown" THEN "none"
  ELSE "raise"

\* _store_feedback: returns after the commit; raises before it (connect,
\* execute, commit); raises after it (conn.close() in the finally)
StoreOutcomes == {"stored", "raise_unstored", "raise_stored"}

SesIdle ==
  UNCHANGED <<now, ticks, redis, mem, redisUp, ideal, lastRes, idealRes, ops, tier, calls,
              allowedCnt, rpmStarted, nextRun, resp>>

Polling == [pc |-> "poll", batch |-> <<>>, parsed |-> "", stored |-> FALSE]

\* The for loop of _poll_and_process moving on, after _process_message
\* returned or raised
NextMessage(w) ==
  IF Len(w.batch) <= 1 THEN Polling
  ELSE [Polling EXCEPT !.pc = "parse", !.batch = Tail(w.batch)]

Batches ==
  {<<>>} \cup {<<m>> : m \in Msgs} \cup {<<m, n>> : <<m, n>> \in {x \in Msgs \X Msgs : x[1] # x[2]}}

\* sqs.receive_message: some of the visible messages, now in flight
SesReceive ==
  \E batch \in Batches :
    /\ reqs.pc = "poll"
    /\ started < MaxReceives
    /\ \A i \in 1..Len(batch) : jobs[batch[i]].vis = "visible"
    /\ started' = started + 1
    /\ jobs' = [m \in Msgs |->
                 IF \E i \in 1..Len(batch) : batch[i] = m
                   THEN [jobs[m] EXCEPT !.vis = "inflight", !.receives = @ + 1]
                   ELSE jobs[m]]
    /\ reqs' = IF batch = <<>> THEN Polling
               ELSE [Polling EXCEPT !.pc = "parse", !.batch = batch]
    /\ UNCHANGED okLog
    /\ SesIdle

\* _process_message: parsed = self._parse_ses_notification(body)
SesParse ==
  /\ reqs.pc = "parse"
  /\ LET parsed == parse_ses_notification(jobs[Head(reqs.batch)].body)
     IN  reqs' = IF parsed = "raise" THEN NextMessage(reqs)
                ELSE IF parsed = "none" THEN [reqs EXCEPT !.pc = "delete", !.parsed = "none"]
                ELSE [reqs EXCEPT !.pc = "store", !.parsed = "parsed"]
  /\ UNCHANGED <<jobs, okLog, started>>
  /\ SesIdle

\* _process_message deleting the message whatever _store_feedback did
SesStoreThenDelete ==
  \E outcome \in StoreOutcomes :
    /\ reqs.pc = "store"
    /\ okLog' = IF outcome = "raise_unstored" THEN okLog
                ELSE [okLog EXCEPT ![Head(reqs.batch)] = @ + 1]
    /\ reqs' = [reqs EXCEPT !.pc = "delete", !.stored = (outcome = "stored")]
    /\ UNCHANGED <<jobs, started>>
    /\ SesIdle

\* _process_message: self._store_feedback(parsed)
SesStore ==
  \E outcome \in StoreOutcomes :
    /\ reqs.pc = "store"
    /\ okLog' = IF outcome = "raise_unstored" THEN okLog
                ELSE [okLog EXCEPT ![Head(reqs.batch)] = @ + 1]
    /\ reqs' = IF outcome = "stored" THEN [reqs EXCEPT !.pc = "delete", !.stored = TRUE]
               ELSE NextMessage(reqs)
    /\ UNCHANGED <<jobs, started>>
    /\ SesIdle

\* _delete_message: sqs.delete_message, which may raise
SesDelete ==
  \E deleted \in BOOLEAN :
    /\ reqs.pc = "delete"
    /\ jobs' = IF deleted THEN [jobs EXCEPT ![Head(reqs.batch)].vis = "gone"] ELSE jobs
    /\ reqs' = NextMessage(reqs)
    /\ UNCHANGED <<okLog, started>>
    /\ SesIdle

\* The visibility timeout of a message in flight runs out
SesRedeliver ==
  \E m \in Msgs :
    /\ jobs[m].vis = "inflight"
    /\ jobs' = [jobs EXCEPT ![m].vis = "visible"]
    /\ UNCHANGED <<reqs, okLog, started>>
    /\ SesIdle

InitSes ==
  /\ InitCommon
  /\ InitRpmIdle
  /\ \E bodies \in [Msgs -> SesBodies] :
       jobs = [m \in Msgs |-> [body |-> bodies[m], vis |-> "visible", receives |-> 0]]
  /\ okLog = [m \in Msgs |-> 0]
  /\ reqs = Polling
  /\ started = 0
  /\ nextRun = 1
  /\ resp = NoResp

NextSes == SesReceive \/ SesParse \/ SesStore \/ SesDelete \/ SesRedeliver

SpecSes == InitSes /\ [][NextSes]_vars

\* Message m leaves the queue in this step
SesDeleted(m) == jobs[m].vis # "gone" /\ jobs'[m].vis = "gone"

\* C39: a message is deleted from the queue only by an attempt that has
\* committed its notification to the database, or when its body does not
\* parse as a known SES notification; an attempt whose store raises ends
\* without deleting, and the message is still in the queue.
C39_DeleteAfterStoreOnly ==
  [][/\ \A m \in Msgs :
          SesDeleted(m) =>
            \/ parse_ses_notification(jobs[m].body) = "none"
            \/ reqs.stored /\ Head(reqs.batch) = m /\ okLog[m] >= 1
     /\ (reqs.pc = "store" /\ reqs' # reqs /\ reqs'.pc # "delete") =>
          /\ jobs'[Head(reqs.batch)].vis # "gone"
          /\ reqs' = NextMessage(reqs)
    ]_vars

\* A notification whose first attempt failed in the store, delivered again,
\* stored once and deleted
C39_Witness ==
  \E m \in Msgs :
    /\ jobs[m].body = "ses"
    /\ jobs[m].receives >= 2
    /\ okLog[m] = 1
    /\ jobs[m].vis = "gone"

-----------------------------------------------------------------------------
(* DeterministicTestLimiter (rate_limiter.py). In this specification mem is *)
(* self._counters (partition -> [count, window_start]), tier the limiter's  *)
(* [quota, window], lastRes the RateLimitResult of the last call with the   *)
(* partition it was made on, calls the log of every call per partition,     *)
(* ops the number of calls made.                                            *)

LimiterQuotas == {0, 1, 2}
LimiterWindows == {1, 2}
LimiterKeys == {"k1", "k2"}
LimiterPaths == {"/v1/usage", "/v1/runs"}
Partitions == LimiterKeys \X LimiterPaths

RateLimitResult(allowed, quota, window, remaining, reset) ==
  [allowed |-> allowed, policy_id |-> "default", quota |-> quota, window |-> window,
   remaining |-> remaining, reset |-> reset]

\* check_rate_limit: the new _counters and the result
check_rate_limit(counters, lim, partition_key, current_time) ==
  IF partition_key \notin DOMAIN counters
    THEN [counters |-> Put(counters, partition_key,
                           [count |-> 1, window_start |-> current_time]),
          result |-> RateLimitResult(TRUE, lim.quota, lim.window, lim.quota - 1, lim.window)]
  ELSE LET count == counters[partition_key].count
           window_start == counters[partition_key].window_start
           elapsed == current_time - window_start
       IN  IF elapsed >= Secs(lim.window)
             THEN [counters |-> Put(counters, partition_key,
                                    [count |-> 1, window_start |-> current_time]),
                   result |-> RateLimitResult(TRUE, lim.quota, lim.window, lim.quota - 1,
                                              lim.window)]
           ELSE IF count < lim.quota
             THEN [counters |-> Put(counters, partition_key,
                                    [count |-> count + 1, window_start |-> window_start]),
                   result |-> RateLimitResult(TRUE, lim.quota, lim.window,
                                              lim.quota - (count + 1),
                                              IntSecs(Secs(lim.window) - elapsed))]
           ELSE [counters |-> counters,
                 result |-> RateLimitResult(FALSE, lim.quota, lim.window, 0,
                                            IntSecs(Secs(lim.window) - elapsed))]

LimiterIdle ==
  UNCHANGED <<redis, redisUp, ideal, idealRes, allowedCnt, rpmStarted, reqs, started,
              nextRun, jobs, okLog, resp>>

LimiterCall ==
  \E partition_key \in Partitions :
    LET o == check_rate_limit(mem, tier, partition_key, now)
    IN  /\ ops < MaxOps
        /\ ops' = ops + 1
        /\ mem' = o.counters
        /\ lastRes' = [partition |-> partition_key, result |-> o.result]
        /\ calls' = [calls EXCEPT ![partition_key] =
                       Append(@, [t |-> now, allowed |-> o.result.allowed])]
        /\ UNCHANGED <<now, ticks, tier>>
        /\ LimiterIdle

LimiterTick ==
  /\ ticks < MaxTicks
  /\ ticks' = ticks + 1
  /\ now' = now + 1
  /\ UNCHANGED <<mem, tier, lastRes, calls, ops>>
  /\ LimiterIdle

InitLimiter ==
  /\ now = 0
  /\ ticks = 0
  /\ redis = Empty
  /\ mem = Empty
  /\ redisUp = TRUE
  /\ ideal = Empty
  /\ idealRes = NotFound
  /\ ops = 0
  /\ tier \in [quota : LimiterQuotas, window : LimiterWindows]
  /\ lastRes = [partition |-> <<"", "">>,
                result |-> RateLimitResult(TRUE, tier.quota, tier.window, 0, 0)]
  /\ calls = [k \in Partitions |-> <<>>]
  /\ allowedCnt = Empty
  /\ rpmStarted = 0
  /\ InitDemoIdle

NextLimiter == LimiterCall \/ LimiterTick

SpecLimiter == InitLimiter /\ [][NextLimiter]_vars

\* The requests allowed on partition k in its current window
AllowedInWindow(counters, log, k) ==
  {i \in 1..Len(log[k]) : log[k][i].allowed /\ log[k][i].t >= counters[k].window_start}

\* What the claim says of a call, for the limiter's quota as it is
LimiterCallAsClaimed ==
  LET k == lastRes'.partition
      res == lastRes'.result
  IN  /\ \A k2 \in Partitions \ {k} :
           /\ (k2 \in DOMAIN mem) = (k2 \in DOMAIN mem')
           /\ k2 \in DOMAIN mem => mem'[k2] = mem[k2]
      /\ Cardinality(AllowedInWindow(mem', calls', k)) <= tier.quota
      /\ ~res.allowed => (res.remaining = 0 /\ mem' = mem)
      /\ (res.allowed /\ tier.quota >= 1) => res.remaining >= 0
      /\ (~res.allowed) <=>
           ( /\ k \in DOMAIN mem
             /\ now - mem[k].window_start < Secs(tier.window)
             /\ Cardinality(AllowedInWindow(mem, calls, k)) >= tier.quota )

C40_FromQuotaOne ==
  [][(ops' = ops + 1 /\ tier.quota >= 1) => LimiterCallAsClaimed]_vars

====
